---- MODULE Spec2Model ----
(***************************************************************************)
(* Verification model of RivalSearchMCP's retrieval pipeline and of its    *)
(* error, pagination and cache utilities.                                  *)
(*                                                                         *)
(* Spec       : one search engine instance (BaseSearchEngine and the RSS   *)
(*              engine built on it): search(), the page fetch with its     *)
(*              visited set, and the two-level concurrent link-follower.   *)
(* SpecResults: the same engine over feeds of every shape, for the parse   *)
(*              of the result list.                                        *)
(* SpecFetch  : base_fetch_url's escalation ladder, run by the tasks of    *)
(*              batch_rival_retrieve.                                      *)
(* SpecMulti  : MultiSearchEngine.search over its four engines, called     *)
(*              through multi_search and through the google_search tool.   *)
(* SpecExtract: the extraction cascade of ContentExtractor and of          *)
(*              UnifiedContentExtractor over documents of every shape.     *)
(* SpecPage   : extract_search_results over result pages, with its         *)
(*              selector families and its anchor fallback.                 *)
(* SpecProxy  : the proxy pool of get_proxies and refresh_proxies, with    *)
(*              two concurrent callers and a clock.                        *)
(* SpecProcess: ConcurrentProcessor.process_concurrently over groups of    *)
(*              operations, with its semaphore and its timeout.            *)
(* SpecRecovery: ErrorRecoveryStrategy.execute_with_recovery.              *)
(* SpecFallback: execute_with_fallback of the two fallback strategies.     *)
(* SpecPaging : a walk through the pages of MCPPaginationManager.          *)
(* SpecCache  : LRUCache under put and get calls, with its TTL clock.      *)
(*                                                                         *)
(* Every action is one run of a coroutine from one suspension point        *)
(* (await) to the next, which is the atomicity the event loop gives.       *)
(***************************************************************************)
EXTENDS Integers, Sequences, FiniteSets, TLC

(***************************************************************************)
(* Bounds of the model.                                                    *)
(***************************************************************************)
NPaths == 12        \* paths per host; a page can expose NPaths same-host links
MaxResults == 1     \* results in one result list
MaxSearches == 2    \* search() calls on the engine instance
MaxBatch == 2       \* URLs in one batch_rival_retrieve call
MaxItems == 3       \* <item> elements in a feed given to the RSS parse
MaxWanted == 2      \* max_results asked of the multi-engine search
MaxContainers == 2  \* containers the selector families match in a page
MaxAnchors == 1     \* anchors of a page besides those of its containers
MaxTicks == 1       \* steps of the clock, of TickLength seconds each
MaxOps == 2         \* operations given to one process_concurrently call
MaxRetries == 3     \* max_retries of an ErrorRecoveryStrategy
MaxFallbacks == 2   \* entries of fallback_operations
MaxListed == 4      \* items of a paginated list
MaxWaits == 1       \* times a cursor is kept for more than a day
MaxCalls == 4       \* put and get calls on one LRUCache
MaxAgeing == 2      \* seconds that pass on the cache's clock

(***************************************************************************)
(* Program constants of the engine and its link-follower.                  *)
(***************************************************************************)
num_results == 10           \* search(num_results=10)
InternalLinkLimit == 10     \* list(set(links))[:10]
max_links == 3              \* _extract_second_level_content(max_links=3)
ThirdLevelLimit == 2        \* internal_links[:2]

VARIABLES
    \* ---- environment of the engine, fixed during a run
    clientStrict,   \* TRUE: the HTTP client refuses to be entered twice
    webFan,         \* shape of the pages served: links exposed per page
    webDown,        \* URLs whose request fails (error status, timeout)
    hashSeed,       \* iteration order of a Python set of strings
    webFeed,        \* items of the feed the engine's site serves
    pageLinks,      \* per URL, what _extract_internal_links finds in its page
    \* ---- BaseSearchEngine
    session,        \* state of self.session
    visited_urls,   \* self.visited_urls
    \* ---- the search() coroutine
    pc,             \* "idle" | "rss" | "next" | "page" | "follow"
    call,           \* arguments of the last search() call, and how its
                    \* result-list request was answered
    results,        \* the result list being filled in
    cur,            \* index of the result being processed
    tasks,          \* the depth-1 tasks of the running gather
    returned,       \* what the last search() call returned
    searches,       \* search() calls started so far
    \* ---- history of the page requests issued (client.get of line 140)
    requests,       \* set of [url, depth, origin, parent, search]
    reqCount,       \* requests issued per URL since construction
    \* ---- batch_rival_retrieve and its base_fetch_url tasks
    net,            \* per URL, how each fetch stage answers (fixed in a run)
    resources,      \* the argument of batch_rival_retrieve
    fetches,        \* one task per resource: base_fetch_url(resource)
    finished,       \* indices of the tasks in the order they completed
    bpc,            \* "idle" | "gather" | "done"
    processed_results,  \* what batch_rival_retrieve returned
    \* ---- MultiSearchEngine and the google_search tool
    engineNet,      \* per engine, how its site answers (fixed in a run)
    msession,       \* state of MultiSearchEngine.session
    mpc,            \* "idle" | "engine" | "closing" | "done"
    mcall,          \* arguments of the last call and the entry it came by
    sorted_engines, \* the selected engines in priority order
    engine_idx,     \* position of the loop in sorted_engines
    all_results,    \* results accumulated by the loop
    unique_results, \* what MultiSearchEngine.search returned
    mlog,           \* lines logged at warning or error level
    reply,          \* what the google_search tool returned
    \* ---- extract_main_content
    html,           \* the document given: what each stage finds in it
    available,      \* which optional parsers the process could import
    extracted,      \* the extractor last called and what it returned
    \* ---- extract_search_results
    result_page,    \* the result page given: its containers and anchors
    page_done,      \* the page has been extracted from
    wanted,         \* max_results of the call
    page_results,   \* the list returned
    \* ---- the proxy pool of bypass.py
    sourceNet,      \* per proxy source, how it answers (fixed in a run)
    alive,          \* the addresses whose probe passes (fixed in a run)
    now,            \* the time of the event loop
    proxies,        \* the global proxies
    last_proxy_refresh, \* the global last_proxy_refresh
    callers,        \* per caller, its get_proxies coroutine
    pool_passed,    \* the addresses probed alive by the refresh that made
                    \* the pool
    retried,        \* the addresses probed again within RefreshInterval
                    \* of a refresh in which their probe failed
    failed_at,      \* per address, the start of the last refresh in which
                    \* its probe failed (-1: none)
    \* ---- ConcurrentProcessor (src/performance/performance.py) ----
    timeout_seconds, \* self.timeout_seconds (NoTimeout: None or 0)
    max_concurrent, \* the permits of self.semaphore
    operations,     \* the operations given to process_concurrently
    op_state,       \* per operation, its process_single task
    clock,          \* seconds since the call
    group,          \* the process_concurrently call and its outcome
    \* ---- error strategies, pagination, cache ----
    recovery,       \* an execute_with_recovery call (src/error/recovery.py)
    fbcall,         \* an execute_with_fallback call (src/error/fallback.py)
    pagination,     \* a walk through the pages of _paginate_generic
    lru             \* an LRUCache (src/performance/performance.py)

envVars == <<clientStrict, webFan, webDown, hashSeed, webFeed, pageLinks>>
engineVars == <<session, visited_urls, pc, call, results, cur, tasks,
                returned, searches, requests, reqCount>>
fetchVars == <<net, resources, fetches, finished, bpc, processed_results>>
multiVars == <<engineNet, msession, mpc, mcall, sorted_engines, engine_idx,
               all_results, unique_results, mlog, reply>>
extractVars == <<html, available, extracted>>
\* The state of the components that the engine, the fetcher and the
\* multi-engine search never touch.
pageVars == <<result_page, page_done, wanted, page_results>>
proxyVars == <<sourceNet, alive, now, proxies, last_proxy_refresh, callers,
               pool_passed, retried, failed_at>>
processVars == <<timeout_seconds, max_concurrent, operations, op_state,
                 clock, group>>
utilVars == <<recovery, fbcall, pagination, lru>>
otherVars == <<extractVars, pageVars, proxyVars, processVars, utilVars>>
coreVars == <<envVars, engineVars, fetchVars, multiVars>>
vars == <<coreVars, otherVars>>

(***************************************************************************)
(* URLs, hrefs and pages.                                                  *)
(***************************************************************************)
Hosts == {"a.example", "b.example"}
Paths == 0 .. (NPaths - 1)
Urls == [host : Hosts, path : Paths]
Url(h, p) == [host |-> h, path |-> p]

OtherHost(h) == IF h = "a.example" THEN "b.example" ELSE "a.example"

\* An href is relative (a path) or absolute (host and path).
RelHref(p) == [abs |-> FALSE, host |-> "", path |-> p]
AbsHref(h, p) == [abs |-> TRUE, host |-> h, path |-> p]

\* urllib.parse.urljoin(base_url, href)
urljoin(base, href) ==
    IF href.abs THEN Url(href.host, href.path) ELSE Url(base.host, href.path)

\* urlparse(url).netloc
extract_domain(url) == url.host

FanOuts == {0, 2, NPaths - 1}

\* The hash seeds tried: two iteration orders of every set.
HashSeeds == {0, 1}

\* The anchors of the page served for url when pages expose fan links:
\* fan relative links to the following paths, the first of them once more
\* in absolute form (a duplicate), a link to another host, and a link back
\* to path 0 (a cycle).  A page with fan 0 has only the foreign link.
RECURSIVE RelLinks(_, _)
RelLinks(p, k) ==
    IF k = 0 THEN <<>>
    ELSE Append(RelLinks(p, k - 1), RelHref((p + k) % NPaths))

Hrefs(url, fan) ==
    IF fan = 0 THEN <<AbsHref(OtherHost(url.host), url.path)>>
    ELSE RelLinks(url.path, fan)
         \o <<AbsHref(url.host, (url.path + 1) % NPaths),
              AbsHref(OtherHost(url.host), url.path),
              RelHref(0)>>

Range(s) == {s[i] : i \in 1 .. Len(s)}
Take(s, n) == SubSeq(s, 1, IF Len(s) < n THEN Len(s) ELSE n)

\* list(set(links)): the elements of S in the iteration order of the set.
\* The order of a set of strings follows their hashes, which depend on the
\* process's hash seed and, through the table's size and collisions, on the
\* set: here the order of the paths, starting at an offset that depends on
\* the seed and on the page the links come from.
HostSeq(S, h) == IF \E u \in S : u.host = h
                 THEN <<CHOOSE u \in S : u.host = h>> ELSE <<>>

RECURSIVE ListFrom(_, _, _)
ListFrom(S, start, k) ==
    IF k = NPaths THEN <<>>
    ELSE LET here == {u \in S : u.path = (start + k) % NPaths}
         IN  HostSeq(here, "a.example") \o HostSeq(here, "b.example")
             \o ListFrom(S, start, k + 1)

ListOfSet(S, seed, base_url) == ListFrom(S, seed + 5 * base_url.path, 0)

\* Mutant: links to any domain are kept.
AnyDomain(absolute_url, base_url) == TRUE

\* The same-domain test of _extract_internal_links.
SameDomain(absolute_url, base_url) ==
    extract_domain(absolute_url) = extract_domain(base_url)

\* BaseSearchEngine._extract_internal_links(html_content, base_url), for
\* the page served for base_url.
extract_internal_links(fan, seed, base_url) ==
    LET hrefs == Hrefs(base_url, fan)
        links == {urljoin(base_url, hrefs[i]) : i \in 1 .. Len(hrefs)}
        internal == {u \in links : SameDomain(u, base_url)}
    IN  Take(ListOfSet(internal, seed, base_url), InternalLinkLimit)

(***************************************************************************)
(* BaseSearchEngine._fetch_page_content, up to its first suspension point. *)
(***************************************************************************)
\* Mutant: the visited test is dropped.
NeverVisited(url, visited) == FALSE

\* `if url in self.visited_urls: return None`
AlreadyVisited(url, visited) == url \in visited

\* `async with self.session as client`: a strict client raises RuntimeError
\* unless it has never been opened; the error is caught and None returned.
CanEnter(ses) == ~clientStrict \/ ses = "unopened"

\* The calls _fetch_page_content(links[1]), ..., made one after the other
\* by the tasks a gather starts: each tests and extends the visited set and
\* enters the client without suspending in between.  Call i meets the
\* visited set extended by the calls before it, and the client as the
\* first of them that entered it left it.  st[i] is "wait" when the request
\* for links[i] was issued and "none" when the call returned None at once.
Fresh(links, visited, i) ==
    ~AlreadyVisited(links[i], visited \cup {links[j] : j \in 1 .. (i - 1)})

Enters(links, visited, ses, i) ==
    /\ Fresh(links, visited, i)
    /\ IF CanEnter(ses) /\ \E j \in 1 .. (i - 1) : Fresh(links, visited, j)
       THEN CanEnter("opened")
       ELSE CanEnter(ses)

StartFetches(links, visited, ses) ==
    [st |-> [i \in 1 .. Len(links) |->
               IF Enters(links, visited, ses, i) THEN "wait" ELSE "none"],
     visited |-> visited \cup Range(links),
     ses |-> IF \E i \in 1 .. Len(links) : Enters(links, visited, ses, i)
             THEN "opened" ELSE ses]

\* The history of the requests issued by such a batch of calls.
Issued(links, st) == {i \in 1 .. Len(links) : st[i] = "wait"}

LogRequests(links, st, depth, origin, parent) ==
    requests \cup {[url |-> links[i], depth |-> depth, origin |-> origin,
                    parent |-> parent, search |-> searches]
                   : i \in Issued(links, st)}

CountRequests(links, st) ==
    [u \in Urls |-> reqCount[u]
                    + Cardinality({i \in Issued(links, st) : links[i] = u})]

\* The response to the request for url: None (an error) or the page.
FetchFails(url) == url \in webDown

(***************************************************************************)
(* Results and tasks.                                                      *)
(***************************************************************************)
Unset == [set |-> FALSE, map |-> {}]

\* MultiSearchResult(title=..., url=link, position=...): the content fields
\* start unset.
NewResult(item, position) ==
    [title |-> item.title, url |-> item.link[1], position |-> position,
     full_content |-> FALSE, text |-> {}, internal_links |-> <<>>,
     second_level_content |-> Unset]

Origins == {Url("a.example", 0), Url("b.example", 1)}

\* An <item> of the feed: its cleaned title ("" when there is none) and its
\* link (<<>> when there is none).
Item(title, link) == [title |-> title, link |-> link]
Items ==
    {Item("a title", <<u>>) : u \in Origins}
        \cup {Item("", <<Url("a.example", 0)>>), Item("a title", <<>>)}

Min(a, b) == IF a < b THEN a ELSE b

\* position=i + 1 for the i-th item, where enumerate counts from 0
RankOf(i) == i

\* Mutation of Sliced: the items are not cut to the number asked for.
NotSliced(items, n) == items

\* items[:num_results], for num_results >= 0
Sliced(items, n) == SubSeq(items, 1, Min(Len(items), n))

\* The loop of _search_rss over the sliced items, from the i-th on: an item
\* becomes a result if it has a title and a link.
RECURSIVE ResultsFrom(_, _)
ResultsFrom(items, i) ==
    IF i > Len(items)
    THEN <<>>
    ELSE (IF items[i].title # "" /\ items[i].link # <<>>
          THEN <<NewResult(items[i], RankOf(i))>>
          ELSE <<>>) \o ResultsFrom(items, i + 1)

ParseRss(items, n) == ResultsFrom(Sliced(items, n), 1)

\* A feed whose items all have a title and the given links.
FullFeed(links) == [i \in 1 .. Len(links) |-> Item("a title", <<links[i]>>)]

RECURSIVE SeqsUpTo(_, _)
SeqsUpTo(S, n) ==
    IF n = 0 THEN {<<>>}
    ELSE LET shorter == SeqsUpTo(S, n - 1)
         IN  shorter \cup {Append(s, x) : s \in shorter, x \in S}

ResultLists == {FullFeed(links) : links \in SeqsUpTo(Origins, MaxResults)}

DownSets == {{}, {Url("a.example", 1)}, {Url("a.example", 0)}}

NewKid(link, st) == [link |-> link, st |-> IF st = "wait" THEN "wait" ELSE "done",
                     ok |-> FALSE]

NewTask(link, st) ==
    [link |-> link, st |-> IF st = "wait" THEN "wait" ELSE "done", ok |-> FALSE,
     links |-> <<>>, kids |-> <<>>]

(***************************************************************************)
(* The network as base_fetch_url sees it.  A body is the set of phrases    *)
(* its lower-cased text contains; the empty body has none.                 *)
(***************************************************************************)
ARCHIVE_FALLBACKS ==
    << "https://archive.is/?url=",
       "https://12ft.io/proxy?q=",
       "https://webcache.googleusercontent.com/search?q=cache:" >>

PAYWALL_INDICATORS ==
    {"subscribe", "paywall", "sign in to read", "become a member",
     "login to continue"}

enhanced_indicators ==
    PAYWALL_INDICATORS \cup
    {"subscribe to continue", "become a member", "premium content",
     "exclusive access", "member only", "sign in to read", "login required",
     "registration required", "free trial", "limited access",
     "premium article", "subscriber only", "pay to read", "purchase article",
     "buy access", "upgrade to read", "premium subscription",
     "digital subscription", "newsletter signup", "create account",
     "join now", "unlock article", "exclusive story", "member exclusive"}

\* any(indicator in content_lower for indicator in enhanced_indicators)
detect_paywall(content) == content \cap enhanced_indicators # {}

\* How a request can end: no usable response ("down": an exception, or for
\* an archive service a status other than 200), or a status-200 body.
Kinds == {"down", "empty", "clean", "paywall"}

TextOf(kind) ==
    CASE kind = "clean"   -> {"the article"}
      [] kind = "paywall" -> {"the article", "join now"}
      [] OTHER            -> {}

\* How the stages answer for one URL: the bypass client ("skipped" when
\* random.random() >= 0.3), the standard client, archive service k when it
\* is probed or asked for the paywalled page, the copy it serves when the
\* fallback fetches the probed URL, and process_images_ocr.
Profiles ==
    [bypass   : Kinds \cup {"skipped"},
     httpx    : Kinds,
     arch     : [1 .. Len(ARCHIVE_FALLBACKS) -> Kinds],
     fallback : Kinds,
     ocr      : {"none", "text", "error"}]

FetchUrls == Origins

Unreachable ==
    [bypass |-> "skipped", httpx |-> "down",
     arch |-> [k \in 1 .. Len(ARCHIVE_FALLBACKS) |-> "down"],
     fallback |-> "down", ocr |-> "none"]

\* Nothing has been fetched: batch_rival_retrieve has not been called.
FetchIdle ==
    /\ net = [u \in FetchUrls |-> Unreachable]
    /\ resources = <<>>
    /\ fetches = <<>>
    /\ finished = <<>>
    /\ bpc = "idle"
    /\ processed_results = <<>>

\* The four engines of MultiSearchEngine.__init__, by key.
EngineKeys == {"duckduckgo", "startpage", "brave", "searx"}

NoSearch == [max_results |-> 0, engines |-> {}, entry |-> "none"]
NoReply == [success |-> FALSE, results |-> <<>>, count |-> 0, error |-> "none"]

\* Nothing has been searched: no MultiSearchEngine has been constructed.
MultiIdle ==
    /\ engineNet = [e \in EngineKeys |-> "network error"]
    /\ msession = "none"
    /\ mpc = "idle"
    /\ mcall = NoSearch
    /\ sorted_engines = <<>>
    /\ engine_idx = 0
    /\ all_results = <<>>
    /\ unique_results = <<>>
    /\ mlog = <<>>
    /\ reply = NoReply

\* The thresholds of the extraction cascade, and the length that stands for
\* a stage that raises.
MinContent == 100           \* len(content) > 100
MinTitle == 10              \* len(title_text) > 10
NFamilies == 4              \* len(selector_sets)
NSources == 4               \* len(PROXY_SOURCES)
RefreshInterval == 1800     \* current_time - last_proxy_refresh < 1800
MinPool == 5                \* len(proxies) > 5
TestLimit == 10             \* found_proxies[:10]
RefreshCount == 20          \* get_proxies(20) in refresh_proxies
TickLength == 1800          \* the clock moves by a RefreshInterval
Callers == {"c1", "c2"}
Counts == {1}               \* get_proxies(count); refresh_proxies asks for 20
Raises == -1

\* No extractor has been called.
NotExtracted == [by |-> "none", out |-> [stage |-> "none", len |-> 0]]
ExtractIdle ==
    /\ html = [empty |-> TRUE]
    /\ available = [content_utils |-> FALSE, selectolax |-> FALSE]
    /\ extracted = NotExtracted

\* The components outside a specification stay as constructed.
\* No result page has been given.
PageIdle ==
    /\ result_page = [containers |-> <<>>, anchors |-> <<>>]
    /\ page_done = FALSE
    /\ wanted = 0
    /\ page_results = <<>>

\* The index of PROXY_SOURCES
Sources == 1 .. NSources

\* The addresses the sources list.
Candidates == {"10.0.0.1:80", "10.0.0.2:80", "10.0.0.3:80"}

\* How a source answers: the request fails (an exception, or a status that
\* is not 200), or its page lists these addresses.
SourceDown == [ok |-> FALSE, found |-> <<>>]
Listing(found) == [ok |-> TRUE, found |-> found]

\* A caller's coroutine.  passed, cached and stale are not variables of the
\* code: the addresses whose probe passed in this call, whether the call
\* was answered from the cache, and the pool the call found.
IdleCaller ==
    [pc |-> "idle", via |-> "none", count |-> 0, current_time |-> 0,
     source |-> 0, proxy |-> 0, found_proxies |-> <<>>,
     valid_proxies |-> <<>>, all_proxies |-> <<>>, returned |-> <<>>,
     passed |-> {}, cached |-> FALSE, stale |-> <<>>]

\* The clock of the event loop is monotonic and its origin is arbitrary; it
\* starts here a RefreshInterval past last_proxy_refresh = 0, the value the
\* module is loaded with, so that the first call finds the pool old.
StartTime == RefreshInterval

\* No caller has called, and the module is as loaded.
ProxyIdle ==
    /\ sourceNet = [s \in Sources |-> SourceDown]
    /\ alive = {}
    /\ now = StartTime
    /\ proxies = <<>>
    /\ last_proxy_refresh = 0
    /\ callers = [c \in Callers |-> IdleCaller]
    /\ pool_passed = {}
    /\ retried = {}
    /\ failed_at = [a \in Candidates |-> -1]

\* ConcurrentProcessor: timeout_seconds of None and of 0 are the same to
\* `if self.timeout_seconds`.
NoTimeout == 0
NoOperation == "none"
NoOutcome == [pc |-> "idle", results |-> <<>>, raised |-> "none",
              operation |-> NoOperation, finished_at |-> 0,
              via |-> "none", lo |-> 1, hi |-> 0, called_at |-> 0,
              batch_size |-> 0, batch_results |-> <<>>]
NewSingle == [status |-> "new", started |-> 0]

\* No group of operations has been given to the processor.
ProcessIdle ==
    /\ timeout_seconds = NoTimeout
    /\ max_concurrent = 1
    /\ operations = <<>>
    /\ op_state = <<>>
    /\ clock = 0
    /\ group = NoOutcome

\* No execute_with_recovery call: the strategy as constructed by default.
NoRecovery ==
    [pc |-> "idle", max_retries |-> 3, attempt |-> 0, history |-> <<>>,
     value |-> "none", raised |-> "none"]

\* No execute_with_fallback call.
NoFallbackCall ==
    [pc |-> "idle", class |-> "SearchFallbackStrategy",
     fallback_operations |-> <<>>, idx |-> 0, called |-> <<>>,
     answers |-> <<>>, e |-> "none", returned |-> "none", raised |-> "none"]

\* No page has been asked for.
NoPagination ==
    [items |-> <<>>, limit |-> 0, default_limit |-> 50, max_limit |-> 1000,
     cursor |-> <<>>, responses |-> <<>>, ended |-> FALSE, time |-> 0,
     waits |-> 0]

\* No call of an LRUCache yet.
NoCacheCall ==
    [op |-> "none", key |-> "none", before |-> <<>>, used |-> <<>>,
     removed |-> "none", value |-> "None"]

\* An LRUCache as constructed by default: empty, entries never expire.
NoCache ==
    [max_size |-> 1000, ttl_seconds |-> 0, cache |-> <<>>, time |-> 0,
     calls |-> 0, used |-> <<>>, last |-> NoCacheCall]

UtilIdle ==
    /\ recovery = NoRecovery
    /\ fbcall = NoFallbackCall
    /\ pagination = NoPagination
    /\ lru = NoCache

OthersIdle ==
    ExtractIdle /\ PageIdle /\ ProxyIdle /\ ProcessIdle /\ UtilIdle

(***************************************************************************)
(* Initial state: a newly constructed engine (BaseSearchEngine.__init__).  *)
(***************************************************************************)
NoCall ==
    [num_results |-> 0, extract_content |-> FALSE, follow_links |-> FALSE,
     max_depth |-> 0, answer |-> "none"]

Init ==
    /\ clientStrict \in BOOLEAN
    /\ webFan \in FanOuts
    /\ webDown \in DownSets
    /\ hashSeed \in HashSeeds
    /\ webFeed \in ResultLists
    /\ pageLinks = [u \in Urls |-> extract_internal_links(webFan, hashSeed, u)]
    /\ session = "unopened"
    /\ visited_urls = {}
    /\ pc = "idle"
    /\ call = NoCall
    /\ results = <<>>
    /\ cur = 0
    /\ tasks = <<>>
    /\ returned = <<>>
    /\ searches = 0
    /\ requests = {}
    /\ reqCount = [u \in Urls |-> 0]
    /\ FetchIdle
    /\ MultiIdle
    /\ OthersIdle

(***************************************************************************)
(* search(): the entry, and the result-list request of _search_rss.        *)
(***************************************************************************)
Search(nr, ec, fl, md) ==
    /\ pc = "idle"
    /\ searches < MaxSearches
    /\ searches' = searches + 1
    /\ call' = [num_results |-> nr, extract_content |-> ec,
                follow_links |-> fl, max_depth |-> md,
                answer |-> IF CanEnter(session) THEN "pending"
                           ELSE "client error"]
    /\ results' = <<>>
    /\ cur' = 0
    /\ IF CanEnter(session)
       THEN /\ session' = "opened"
            /\ pc' = "rss"
            /\ UNCHANGED returned
       ELSE \* RuntimeError, caught in _search_rss: [] is returned
            /\ returned' = <<>>
            /\ UNCHANGED <<session, pc>>
    /\ UNCHANGED <<otherVars, multiVars, fetchVars, envVars, visited_urls, tasks, requests, reqCount>>

\* How the result-list request can end: a feed (status 200), an error
\* status (raise_for_status raises), or a network error (client.get raises).
RssAnswers == {"feed", "error status", "network error"}

\* Mutation of RssResults: the feed is parsed whatever the answer was.
RssParsedAnyway(answer, feed, n) == ParseRss(feed, n)

\* What _search_rss returns: the parsed results, or [] from its except.
RssResults(answer, feed, n) ==
    IF answer = "feed" THEN ParseRss(feed, n) ELSE <<>>

\* The result-list response.  Leaving `async with self.session` closes the
\* client; with no results, or without extract_content, search() returns.
RssResponse(answer) ==
    /\ pc = "rss"
    /\ session' = "closed"
    /\ call' = [call EXCEPT !.answer = answer]
    /\ LET found == RssResults(answer, webFeed, call.num_results)
       IN  /\ results' = found
           /\ IF call.extract_content /\ found # <<>>
              THEN /\ pc' = "next"
                   /\ cur' = 1
                   /\ UNCHANGED returned
              ELSE /\ pc' = "idle"
                   /\ returned' = found
                   /\ UNCHANGED cur
    /\ UNCHANGED <<otherVars, multiVars, fetchVars, envVars, visited_urls, tasks, searches, requests,
                   reqCount>>

\* The loop over the results is exhausted: search() returns them.
ReturnResults ==
    /\ pc = "next"
    /\ cur > Len(results)
    /\ pc' = "idle"
    /\ returned' = results
    /\ UNCHANGED <<otherVars, multiVars, fetchVars, envVars, session, visited_urls, call, results, cur, tasks,
                   searches, requests, reqCount>>

\* `content = await self._fetch_page_content(target_url)` for result cur,
\* up to the request; a call that returns None at once moves on.
FetchResultPage ==
    /\ pc = "next"
    /\ cur <= Len(results)
    /\ LET url == results[cur].url
           s == StartFetches(<<url>>, visited_urls, session)
       IN  /\ visited_urls' = s.visited
           /\ session' = s.ses
           /\ requests' = LogRequests(<<url>>, s.st, 0, url, url)
           /\ reqCount' = CountRequests(<<url>>, s.st)
           /\ IF s.st[1] = "wait"
              THEN pc' = "page" /\ UNCHANGED cur
              ELSE cur' = cur + 1 /\ UNCHANGED pc
    /\ UNCHANGED <<otherVars, multiVars, fetchVars, envVars, call, results, tasks, returned, searches>>

(***************************************************************************)
(* The link-follower: _extract_second_level_content and                    *)
(* _extract_third_level_content_concurrent.                                *)
(***************************************************************************)
\* `internal_links[:max_links]`: the links fetched at depth 1.
SecondLevelLinks(internal_links) == Take(internal_links, max_links)

\* Mutant: three links of a depth-1 page are fetched.
ThirdLevelThree(internal_links) == Take(internal_links, ThirdLevelLimit + 1)

\* `internal_links[:2]`: the links of a depth-1 page fetched at depth 2.
ThirdLevelLinks(internal_links) == Take(internal_links, ThirdLevelLimit)

\* Mutant: a depth-2 page is expanded like a depth-1 page.
FourthLevelTwo(internal_links) == Take(internal_links, ThirdLevelLimit)

\* The links of a depth-2 page that process_third_level_link follows: it
\* extracts title and text only, so none.
FourthLevelLinks(internal_links) == <<>>

AllDone(ts) == \A i \in 1 .. Len(ts) : ts[i].st = "done"

\* The text of the page a site serves for a URL: the pages of b.example
\* are behind a paywall, and the archive services hold the clean article.
PageText(url) ==
    IF url.host = "b.example" THEN TextOf("paywall") ELSE TextOf("clean")

ArchivedText(url) == TextOf("clean")

\* Mutation of ShouldFollow: links are followed whenever there are any.
FollowAlways(c, links) == links # <<>>

\* `if follow_links and result.internal_links and max_depth > 1:`
ShouldFollow(c, links) == c.follow_links /\ links # <<>> /\ c.max_depth > 1

\* Mutation of AfterFailedPage: a failed page ends the loop.
SkipTheRest(c, rs) == Len(rs) + 1

\* _fetch_page_content returned None: `if content:` is skipped and the loop
\* goes on with the next result.
AfterFailedPage(c, rs) == c + 1

\* The response for the page of result cur.  With content, the result's
\* fields are set and, if asked for, the depth-1 tasks are started.
PageResponse ==
    /\ pc = "page"
    /\ LET url == results[cur].url
           links == pageLinks[url]
           follow == ShouldFollow(call, links)
           sel == SecondLevelLinks(links)
           s == StartFetches(sel, visited_urls, "closed")
       IN  IF FetchFails(url)
           THEN /\ session' = "closed"
                /\ cur' = AfterFailedPage(cur, results)
                /\ pc' = "next"
                /\ UNCHANGED <<visited_urls, results, tasks, requests,
                               reqCount>>
           ELSE /\ results' = [results EXCEPT ![cur].full_content = TRUE,
                                              ![cur].text = PageText(url),
                                              ![cur].internal_links = links]
                /\ IF follow
                   THEN /\ session' = s.ses
                        /\ visited_urls' = s.visited
                        /\ tasks' = [i \in 1 .. Len(sel) |->
                                       NewTask(sel[i], s.st[i])]
                        /\ requests' = LogRequests(sel, s.st, 1, url, url)
                        /\ reqCount' = CountRequests(sel, s.st)
                        /\ pc' = "follow"
                        /\ UNCHANGED cur
                   ELSE /\ session' = "closed"
                        /\ cur' = cur + 1
                        /\ pc' = "next"
                        /\ UNCHANGED <<visited_urls, tasks, requests,
                                       reqCount>>
    /\ UNCHANGED <<otherVars, multiVars, fetchVars, envVars, call, returned, searches>>

\* The response for depth-1 task t (process_second_level_link).
SecondResponse(t) ==
    /\ pc = "follow"
    /\ t \in 1 .. Len(tasks)
    /\ tasks[t].st = "wait"
    /\ LET link == tasks[t].link
           links == pageLinks[link]
           sel == ThirdLevelLinks(links)
           s == StartFetches(sel, visited_urls, "closed")
           kids == [i \in 1 .. Len(sel) |-> NewKid(sel[i], s.st[i])]
       IN  IF FetchFails(link)
           THEN /\ tasks' = [tasks EXCEPT ![t].st = "done"]
                /\ session' = "closed"
                /\ UNCHANGED <<visited_urls, requests, reqCount>>
           ELSE /\ tasks' = [tasks EXCEPT
                               ![t].ok = TRUE,
                               ![t].links = links,
                               ![t].kids = kids,
                               ![t].st = IF AllDone(kids) THEN "done"
                                         ELSE "kids"]
                /\ session' = s.ses
                /\ visited_urls' = s.visited
                /\ requests' = LogRequests(sel, s.st, 2,
                                           results[cur].url, link)
                /\ reqCount' = CountRequests(sel, s.st)
    /\ UNCHANGED <<otherVars, multiVars, fetchVars, envVars, pc, call, results, cur, returned, searches>>

\* The response for the k-th depth-2 task of depth-1 task t
\* (process_third_level_link); the last one completes the inner gather.
ThirdResponse(t, k) ==
    /\ pc = "follow"
    /\ t \in 1 .. Len(tasks)
    /\ tasks[t].st = "kids"
    /\ k \in 1 .. Len(tasks[t].kids)
    /\ tasks[t].kids[k].st = "wait"
    /\ LET link == tasks[t].kids[k].link
           ok == ~FetchFails(link)
           kids == [tasks[t].kids EXCEPT ![k].st = "done", ![k].ok = ok]
           deeper == IF ok
                     THEN FourthLevelLinks(pageLinks[link])
                     ELSE <<>>
           s == StartFetches(deeper, visited_urls, "closed")
       IN  /\ tasks' = [tasks EXCEPT ![t].kids = kids,
                                     ![t].st = IF AllDone(kids) THEN "done"
                                               ELSE "kids"]
           /\ session' = s.ses
           /\ visited_urls' = s.visited
           /\ requests' = LogRequests(deeper, s.st, 3, results[cur].url, link)
           /\ reqCount' = CountRequests(deeper, s.st)
    /\ UNCHANGED <<otherVars, multiVars, fetchVars, envVars, pc, call, results, cur, returned, searches>>

\* The nested map: a link is a key only if its entry is not empty.
ThirdLevelMap(kids) == {kids[i].link : i \in {j \in 1 .. Len(kids) : kids[j].ok}}

\* Mutation of SecondLevelMap: one depth-1 link without an entry aborts the
\* map of its siblings.
SecondLevelAbort(ts) ==
    IF \E j \in 1 .. Len(ts) : ~ts[j].ok
    THEN {}
    ELSE {[link |-> ts[i].link,
           internal_links |-> ts[i].links,
           has_third_level |-> ts[i].links # <<>>,
           third_level |-> ThirdLevelMap(ts[i].kids)]
          : i \in 1 .. Len(ts)}

SecondLevelMap(ts) ==
    {[link |-> ts[i].link,
      internal_links |-> ts[i].links,
      has_third_level |-> ts[i].links # <<>>,
      third_level |-> ThirdLevelMap(ts[i].kids)]
     : i \in {j \in 1 .. Len(ts) : ts[j].ok}}

\* The outer gather is complete: the map is built and stored in the result.
FollowJoin ==
    /\ pc = "follow"
    /\ AllDone(tasks)
    /\ results' = [results EXCEPT ![cur].second_level_content =
                       [set |-> TRUE, map |-> SecondLevelMap(tasks)]]
    /\ tasks' = <<>>
    /\ cur' = cur + 1
    /\ pc' = "next"
    /\ UNCHANGED <<otherVars, multiVars, fetchVars, envVars, session, visited_urls, call, returned, searches,
                   requests, reqCount>>

\* BaseSearchEngine.close()
Close ==
    /\ pc = "idle"
    /\ session # "closed"
    /\ session' = "closed"
    /\ UNCHANGED <<otherVars, multiVars, fetchVars, envVars, visited_urls, pc, call, results, cur, tasks,
                   returned, searches, requests, reqCount>>

\* The arguments (extract_content, follow_links, max_depth) tried: the
\* defaults, and each of the three changed on its own.
Modes == {<<TRUE, TRUE, 2>>, <<FALSE, TRUE, 2>>, <<TRUE, FALSE, 2>>,
          <<TRUE, TRUE, 1>>}

EngineStep ==
    \/ \E answer \in RssAnswers : RssResponse(answer)
    \/ ReturnResults
    \/ FetchResultPage
    \/ PageResponse
    \/ \E t \in 1 .. Len(tasks) : SecondResponse(t)
    \/ \E t \in 1 .. Len(tasks) :
          \E k \in 1 .. Len(tasks[t].kids) : ThirdResponse(t, k)
    \/ FollowJoin

Next ==
    \/ \E m \in Modes : Search(num_results, m[1], m[2], m[3])
    \/ EngineStep
    \/ Close

Spec == Init /\ [][Next]_vars

\* The event loop runs every coroutine that is ready, and every request
\* ends with a response or with the client's timeout
\* (httpx.Timeout(30.0, connect=10.0, read=20.0)).
FairSpec == Spec /\ WF_vars(EngineStep)

(***************************************************************************)
(* SpecResults: search() over every feed of up to MaxItems items, whole or *)
(* not, for every number of results asked for, without link-following.     *)
(***************************************************************************)
InitResults ==
    /\ clientStrict \in BOOLEAN
    /\ webFan = 0
    /\ webDown \in DownSets
    /\ hashSeed = 0
    /\ webFeed \in SeqsUpTo(Items, MaxItems)
    /\ pageLinks = [u \in Urls |-> extract_internal_links(webFan, hashSeed, u)]
    /\ session = "unopened"
    /\ visited_urls = {}
    /\ pc = "idle"
    /\ call = NoCall
    /\ results = <<>>
    /\ cur = 0
    /\ tasks = <<>>
    /\ returned = <<>>
    /\ searches = 0
    /\ requests = {}
    /\ reqCount = [u \in Urls |-> 0]
    /\ FetchIdle
    /\ MultiIdle
    /\ OthersIdle

NextResults ==
    \/ \E nr \in 0 .. MaxItems, ec \in BOOLEAN : Search(nr, ec, FALSE, 2)
    \/ \E answer \in RssAnswers : RssResponse(answer)
    \/ ReturnResults
    \/ FetchResultPage
    \/ PageResponse

SpecResults == InitResults /\ [][NextResults]_vars

(***************************************************************************)
(* base_fetch_url: the escalation ladder.  content is <<>> for None and    *)
(* <<body>> for a string; a task is                                        *)
(*   [url, pc, content, k, reqs, out]                                      *)
(* where reqs logs the requests in the order they were issued and k is     *)
(* the position in the archive loop the task is suspended in.              *)
(***************************************************************************)
NoResult == [status |-> "none", content |-> <<>>, ocr |-> FALSE]

\* create_task(base_fetch_url(url)) run to its first await, the sleep.
NewFetch(url) ==
    [url |-> url, pc |-> "sleep", content |-> <<>>, k |-> 0, reqs |-> <<>>,
     out |-> NoResult]

Req(stage, k) == [stage |-> stage, k |-> k, resp |-> "pending"]
Answer(reqs, kind) == [reqs EXCEPT ![Len(reqs)].resp = kind]

\* response.text of a response from src, or nothing for a failed request
Received(url, src, k, kind) ==
    IF kind = "down"
    THEN <<>>
    ELSE <<[url |-> url, src |-> src, k |-> k, text |-> TextOf(kind)]>>

\* Python's `not content`: None or the empty string
Falsy(content) == content = <<>> \/ content[1].text = {}

\* Mutation of TryStandard: the standard client is always tried.
StandardAlways(content) == TRUE

TryStandard(content) == Falsy(content)

TryArchive(content) == Falsy(content)

\* Mutation of Paywalled: the archive services are asked for any content.
PaywalledAlways(content) == ~Falsy(content)

Paywalled(content) == ~Falsy(content) /\ detect_paywall(content[1].text)

Exhausted(content) == Falsy(content)

\* raise ValueError(f"Failed to fetch content from {url}"), re-raised by the
\* outer handler as ValueError(f"Fetch failed: {str(e)}")
Raise(t) ==
    [t EXCEPT !.pc = "done",
              !.out = [status |-> "error", content |-> <<[url |-> t.url]>>,
                       ocr |-> FALSE]]

Finish(t) == IF Exhausted(t.content) THEN Raise(t) ELSE [t EXCEPT !.pc = "ocr"]

CheckPaywall(t) ==
    IF Paywalled(t.content)
    THEN [t EXCEPT !.pc = "mirror", !.k = 1,
                   !.reqs = Append(@, Req("mirror", 1))]
    ELSE Finish(t)

AfterStandard(t) ==
    IF TryArchive(t.content)
    THEN [t EXCEPT !.pc = "probe", !.k = 1,
                   !.reqs = Append(@, Req("probe", 1))]
    ELSE CheckPaywall(t)

AfterBypass(t) ==
    IF TryStandard(t.content)
    THEN [t EXCEPT !.pc = "httpx", !.reqs = Append(@, Req("httpx", 0))]
    ELSE AfterStandard(t)

\* A task moved on; it completes when it reaches "done".
Update(i, t) ==
    /\ fetches' = [fetches EXCEPT ![i] = t]
    /\ finished' = IF t.pc = "done" THEN Append(finished, i) ELSE finished
    /\ UNCHANGED <<otherVars, multiVars, net, resources, bpc, processed_results, envVars, engineVars>>

\* The delay is over.  The bypass client, when it is used, is synchronous:
\* its request and response happen inside this step.
Wake(i) ==
    /\ fetches[i].pc = "sleep"
    /\ LET t == fetches[i]
           kind == net[t.url].bypass
       IN  IF kind = "skipped"
           THEN Update(i, AfterBypass(t))
           ELSE Update(i, AfterBypass(
                    [t EXCEPT !.content = Received(t.url, "bypass", 0, kind),
                              !.reqs = Append(@, [stage |-> "bypass", k |-> 0,
                                                  resp |-> kind])]))

StandardResponse(i) ==
    /\ fetches[i].pc = "httpx"
    /\ LET t == fetches[i]
           kind == net[t.url].httpx
       IN  Update(i, AfterStandard(
               [t EXCEPT !.content = Received(t.url, "httpx", 0, kind),
                         !.reqs = Answer(@, kind)]))

\* get_archive_url: archive service k answered the probe.
ProbeResponse(i) ==
    /\ fetches[i].pc = "probe"
    /\ LET t == fetches[i]
           kind == net[t.url].arch[t.k]
           u == [t EXCEPT !.reqs = Answer(@, kind)]
       IN  IF kind # "down" /\ ~detect_paywall(TextOf(kind))
           THEN Update(i, [u EXCEPT !.pc = "fallback",
                                    !.reqs = Append(@, Req("fallback", t.k))])
           ELSE IF t.k < Len(ARCHIVE_FALLBACKS)
           THEN Update(i, [u EXCEPT !.k = t.k + 1,
                                    !.reqs = Append(@, Req("probe", t.k + 1))])
           ELSE Update(i, CheckPaywall(u))

FallbackResponse(i) ==
    /\ fetches[i].pc = "fallback"
    /\ LET t == fetches[i]
           kind == net[t.url].fallback
       IN  Update(i, CheckPaywall(
               [t EXCEPT !.content = IF kind = "down" THEN @
                                     ELSE Received(t.url, "fallback", t.k, kind),
                         !.reqs = Answer(@, kind)]))

\* The paywall loop: archive service k answered for the paywalled page.
MirrorResponse(i) ==
    /\ fetches[i].pc = "mirror"
    /\ LET t == fetches[i]
           kind == net[t.url].arch[t.k]
           u == [t EXCEPT !.reqs = Answer(@, kind)]
       IN  IF kind # "down" /\ ~detect_paywall(TextOf(kind))
           THEN Update(i, Finish(
                    [u EXCEPT !.content = Received(t.url, "mirror", t.k, kind)]))
           ELSE IF t.k < Len(ARCHIVE_FALLBACKS)
           THEN Update(i, [u EXCEPT !.k = t.k + 1,
                                    !.reqs = Append(@, Req("mirror", t.k + 1))])
           ELSE Update(i, Finish(u))

\* process_images_ocr returned or raised; base_fetch_url returns content.
OcrResult(i) ==
    /\ fetches[i].pc = "ocr"
    /\ LET t == fetches[i]
       IN  Update(i, [t EXCEPT !.pc = "done",
                               !.out = [status |-> "ok", content |-> t.content,
                                        ocr |-> net[t.url].ocr = "text"]])

(***************************************************************************)
(* batch_rival_retrieve.                                                   *)
(***************************************************************************)
BatchCall ==
    /\ bpc = "idle"
    /\ fetches' = [i \in 1 .. Len(resources) |-> NewFetch(resources[i])]
    /\ bpc' = "gather"
    /\ UNCHANGED <<otherVars, multiVars, net, resources, finished, processed_results, envVars,
                   engineVars>>

\* Mutation of GatherResults: results in the order the tasks completed.
GatherAsCompleted(ts) == [i \in 1 .. Len(ts) |-> ts[finished[i]].out]

\* asyncio.gather(*tasks, return_exceptions=True)
GatherResults(ts) == [i \in 1 .. Len(ts) |-> ts[i].out]

\* f"Error fetching {resources[i]}: {str(result)}", or the result itself
Convert(i, result) ==
    IF result.status = "error"
    THEN [error |-> TRUE, fetching |-> <<resources[i]>>,
          content |-> result.content, ocr |-> FALSE]
    ELSE [error |-> FALSE, fetching |-> <<>>,
          content |-> result.content, ocr |-> result.ocr]

\* Mutation of GatherReady: gather without return_exceptions, which ends
\* as soon as one task has raised.
GatherFailFast(ts) ==
    \/ \A i \in 1 .. Len(ts) : ts[i].pc = "done"
    \/ \E i \in 1 .. Len(ts) : ts[i].out.status = "error"

\* gather(..., return_exceptions=True) ends when every task has ended
GatherReady(ts) == \A i \in 1 .. Len(ts) : ts[i].pc = "done"

BatchJoin ==
    /\ bpc = "gather"
    /\ GatherReady(fetches)
    /\ LET gathered == GatherResults(fetches)
       IN  processed_results' =
               [i \in 1 .. Len(gathered) |-> Convert(i, gathered[i])]
    /\ bpc' = "done"
    /\ UNCHANGED <<otherVars, multiVars, net, resources, fetches, finished, envVars, engineVars>>

\* The engine of the other specification stays as constructed.
EngineIdle ==
    /\ clientStrict = FALSE
    /\ webFan = 0
    /\ webDown = {}
    /\ hashSeed = 0
    /\ webFeed = <<>>
    /\ pageLinks = [u \in Urls |-> extract_internal_links(0, 0, u)]
    /\ session = "unopened"
    /\ visited_urls = {}
    /\ pc = "idle"
    /\ call = NoCall
    /\ results = <<>>
    /\ cur = 0
    /\ tasks = <<>>
    /\ returned = <<>>
    /\ searches = 0
    /\ requests = {}
    /\ reqCount = [u \in Urls |-> 0]

\* Networks for the batches: a page served clean, an unreachable one, and a
\* paywalled one of which the second archive service has a clean copy.
Served == [Unreachable EXCEPT !.httpx = "clean", !.ocr = "text"]
Walled ==
    [Unreachable EXCEPT !.bypass = "paywall",
                        !.arch = [k \in 1 .. Len(ARCHIVE_FALLBACKS) |->
                                     IF k = 2 THEN "clean" ELSE "down"]]
BatchProfiles == {Served, Unreachable, Walled}

\* One URL under every network, or a batch under the batch networks.
InitFetch ==
    /\ EngineIdle
    /\ MultiIdle
    /\ OthersIdle
    /\ \/ \E u \in FetchUrls, p \in Profiles :
             /\ net = [v \in FetchUrls |-> IF v = u THEN p ELSE Unreachable]
             /\ resources = <<u>>
       \/ /\ net \in [FetchUrls -> BatchProfiles]
          /\ resources \in SeqsUpTo(FetchUrls, MaxBatch)
    /\ fetches = <<>>
    /\ finished = <<>>
    /\ bpc = "idle"
    /\ processed_results = <<>>

FetchStep ==
    \/ \E i \in 1 .. Len(fetches) : Wake(i)
    \/ \E i \in 1 .. Len(fetches) : StandardResponse(i)
    \/ \E i \in 1 .. Len(fetches) : ProbeResponse(i)
    \/ \E i \in 1 .. Len(fetches) : FallbackResponse(i)
    \/ \E i \in 1 .. Len(fetches) : MirrorResponse(i)
    \/ \E i \in 1 .. Len(fetches) : OcrResult(i)

NextFetch ==
    \/ BatchCall
    \/ FetchStep
    \/ BatchJoin

SpecFetch == InitFetch /\ [][NextFetch]_vars

\* The event loop runs every task that is ready, and every request of
\* base_fetch_url ends with a response or with its client's timeout.
FairSpecFetch == SpecFetch /\ WF_vars(NextFetch)

(***************************************************************************)
(* SpecMulti: MultiSearchEngine.search, called through multi_search and    *)
(* through google_search_fetch by the google_search tool.                  *)
(***************************************************************************)
\* 'priority' of each entry of self.engines
Priority(e) ==
    CASE e = "duckduckgo" -> 1
      [] e = "startpage" -> 2
      [] e = "brave" -> 3
      [] e = "searx" -> 4

\* 'name' of each entry of self.engines
NameOf(e) ==
    CASE e = "duckduckgo" -> "DuckDuckGo"
      [] e = "startpage" -> "Startpage"
      [] e = "brave" -> "Brave Search"
      [] e = "searx" -> "Searx"

\* sorted(... if k in engines, key=priority)
SortedEngines(engines) ==
    LET S == EngineKeys \cap engines
    IN  CHOOSE s \in [1 .. Cardinality(S) -> S] :
            \A i, j \in 1 .. Cardinality(S) :
                i < j => Priority(s[i]) < Priority(s[j])

\* A URL of a result page: a page in one of its spellings, or an anchor.
\* The spellings: "plain"; "slash", with a trailing slash; "upper", with
\* capitals; "fbclid", with the parameter ?fbclid=...; "utm", with the
\* parameter ?utm_source=...
Link(page, form) == [page |-> page, form |-> form]

\* The substitution of [?&](utm_|fbclid|gclid|msclkid)=[^&]* by nothing:
\* a parameter named fbclid, gclid or msclkid goes, and of the utm ones
\* only a parameter whose whole name is "utm_", which utm_source is not.
StripTracking(url) ==
    [url EXCEPT !.form = IF @ = "fbclid" THEN "plain" ELSE @]

\* _normalize_url: the substitution, then url.rstrip('/') and lower().
normalize_url(url) ==
    LET stripped == StripTracking(url)
    IN  [stripped EXCEPT
            !.form = IF @ \in {"slash", "upper"} THEN "plain" ELSE @]

\* A match of the result pattern in a page: (url, title), either may be "".
Hit(url, title) == [url |-> url, title |-> title]

SearchResult(title, url, source_engine, rank) ==
    [title |-> title, url |-> url, source_engine |-> source_engine,
     rank |-> rank]

\* The loop of _extract_links_regex over matches[:max_results]: a match
\* without title, or whose URL is an anchor, is skipped, and the rank of a
\* result is its place among the results kept.
RECURSIVE KeepHits(_, _, _)
KeepHits(matches, engine_name, kept) ==
    IF matches = <<>> THEN kept
    ELSE LET m == Head(matches)
             more == IF m.title # "" /\ m.url.form # "anchor"
                     THEN Append(kept, SearchResult(m.title, m.url,
                                         engine_name, Len(kept) + 1))
                     ELSE kept
         IN  KeepHits(Tail(matches), engine_name, more)

extract_links_regex(matches, engine_name, max_results) ==
    KeepHits(Sliced(matches, max_results), engine_name, <<>>)

\* The loop of _search_searx over data['results'][:max_results]: every
\* entry becomes a result, and its rank is its place in the answer.
SearxResults(entries, max_results) ==
    LET cut == Sliced(entries, max_results)
    IN  [i \in 1 .. Len(cut) |->
            SearchResult(cut[i].title, cut[i].url, "Searx", i)]

\* How an engine's site answers: the request fails, the status is an error,
\* or a page comes back with these matches.
Failures == {"network error", "error status"}
Answer200(matches) == [status |-> "ok", matches |-> matches]
Failed(why) == [status |-> why, matches |-> <<>>]
Pages ==
    {<<>>,
     <<Hit(Link(0, "plain"), "a title")>>,
     <<Hit(Link(0, "slash"), "a title"), Hit(Link(1, "plain"), "a title")>>,
     <<Hit(Link(0, "fbclid"), "a title"), Hit(Link(0, "upper"), "a title")>>,
     <<Hit(Link(0, "utm"), "a title")>>,
     <<Hit(Link(0, "anchor"), "a title"), Hit(Link(1, "plain"), "")>>}
EngineAnswers == {Failed(why) : why \in Failures} \cup
                 {Answer200(p) : p \in Pages}

\* _search_duckduckgo, _search_startpage, _search_brave, _search_searx:
\* every exception is caught inside the method, which then returns [].
EngineResults(e, answer, max_results) ==
    IF answer.status # "ok" THEN <<>>
    ELSE IF e = "searx" THEN SearxResults(answer.matches, max_results)
    ELSE extract_links_regex(answer.matches, NameOf(e), max_results)

\* A line of the log about one engine.
LogLine(e, text, why) == [engine |-> e, text |-> text, reason |-> why]

\* What one engine's turn in the loop writes to the log, in order: the
\* method's logger.error on a failure, then search()'s "No results".
LinesOf(e, answer, found) ==
    (IF answer.status # "ok"
     THEN <<LogLine(e, "search failed", answer.status)>> ELSE <<>>) \o
    (IF found = <<>> THEN <<LogLine(e, "No results", "none")>> ELSE <<>>)

\* _deduplicate_results: the first result of each normalized URL is kept.
RECURSIVE Deduplicate(_, _, _)
Deduplicate(rs, seen_urls, unique) ==
    IF rs = <<>> THEN unique
    ELSE LET normalized_url == normalize_url(Head(rs).url)
         IN  IF normalized_url \notin seen_urls
             THEN Deduplicate(Tail(rs), seen_urls \cup {normalized_url},
                              Append(unique, Head(rs)))
             ELSE Deduplicate(Tail(rs), seen_urls, unique)

deduplicate_results(rs) == Deduplicate(rs, {}, <<>>)

\* google_search_fetch: each result as a dict; an exception gives [].
ToDicts(rs) ==
    [i \in 1 .. Len(rs) |->
        [title |-> rs[i].title, url |-> rs[i].url,
         source |-> rs[i].source_engine, rank |-> rs[i].rank]]

\* The two replies of the google_search tool.
NoResultsFound == "No results found or search blocked"
ToolReply(dicts) ==
    IF dicts = <<>>
    THEN [success |-> FALSE, results |-> <<>>, count |-> 0,
          error |-> NoResultsFound]
    ELSE [success |-> TRUE,
          results |-> [i \in 1 .. Len(dicts) |->
                          [title |-> dicts[i].title, link |-> dicts[i].url]],
          count |-> Len(dicts), error |-> "none"]

\* async with MultiSearchEngine() as searcher: searcher.search(...), up to
\* the request of the first engine.  The log kept is that of this call.
StartSearch(max_results, engines, entry) ==
    /\ mpc \in {"idle", "done"}
    /\ mcall' = [max_results |-> max_results, engines |-> engines,
                 entry |-> entry]
    /\ msession' = "open"
    /\ sorted_engines' = SortedEngines(engines)
    /\ engine_idx' = 1
    /\ all_results' = <<>>
    /\ unique_results' = <<>>
    /\ mlog' = <<>>
    /\ reply' = NoReply
    /\ mpc' = "engine"
    /\ UNCHANGED <<engineNet, envVars, engineVars, fetchVars, otherVars>>

\* multi_search(query, max_results, engines)
multi_search(max_results, engines) ==
    StartSearch(max_results, engines, "multi_search")

\* The google_search tool: google_search_fetch(query, max_results), which
\* calls multi_search(query, max_results) with all the engines.
google_search(max_results) ==
    StartSearch(max_results, EngineKeys, "google_search")

\* The loop ends: enough results have been gathered (the break), or the
\* engine was the last one.
LoopDone(all, idx, max_results, found) ==
    \/ found # <<>> /\ Len(all) >= max_results
    \/ idx = Len(sorted_engines)

\* The answer to the request of the engine whose turn it is, and the loop
\* up to the next request, or past its end to the return of search().
EngineResponse ==
    /\ mpc = "engine"
    /\ LET e == sorted_engines[engine_idx]
           got == EngineResults(e, engineNet[e], mcall.max_results)
           all == all_results \o got
       IN  /\ all_results' = all
           /\ mlog' = mlog \o LinesOf(e, engineNet[e], got)
           /\ IF LoopDone(all, engine_idx, mcall.max_results, got)
              THEN /\ unique_results' =
                          Sliced(deduplicate_results(all), mcall.max_results)
                   /\ mpc' = "closing"
                   /\ UNCHANGED engine_idx
              ELSE /\ engine_idx' = engine_idx + 1
                   /\ UNCHANGED <<unique_results, mpc>>
    /\ UNCHANGED <<engineNet, msession, mcall, sorted_engines, reply,
                   envVars, engineVars, fetchVars, otherVars>>

\* __aexit__ closes the session; the list goes back to the caller, and on
\* the tool's path through google_search_fetch into the tool's reply.
MultiReturn ==
    /\ mpc = "closing"
    /\ msession' = "closed"
    /\ reply' = IF mcall.entry = "google_search"
                THEN ToolReply(ToDicts(unique_results))
                ELSE NoReply
    /\ mpc' = "done"
    /\ UNCHANGED <<engineNet, mcall, sorted_engines, engine_idx, all_results,
                   unique_results, mlog, envVars, engineVars, fetchVars, otherVars>>

\* The calls made: all the engines, one engine, or the last two.
Selections == {EngineKeys, {"duckduckgo"}, {"brave", "searx"}}

InitMulti ==
    /\ EngineIdle
    /\ FetchIdle
    /\ OthersIdle
    /\ engineNet \in [EngineKeys -> EngineAnswers]
    /\ msession = "none"
    /\ mpc = "idle"
    /\ mcall = NoSearch
    /\ sorted_engines = <<>>
    /\ engine_idx = 0
    /\ all_results = <<>>
    /\ unique_results = <<>>
    /\ mlog = <<>>
    /\ reply = NoReply

NextMulti ==
    \/ \E n \in 0 .. MaxWanted : google_search(n)
    \/ \E n \in 0 .. MaxWanted, engines \in Selections :
          multi_search(n, engines)
    \/ EngineResponse
    \/ MultiReturn

SpecMulti == InitMulti /\ [][NextMulti]_vars

(***************************************************************************)
(* SpecExtract: the extraction cascade, ContentExtractor's                 *)
(* extract_main_content and UnifiedContentExtractor's extract, over        *)
(* documents given by what each stage finds in them.                       *)
(***************************************************************************)
\* What a stage of the cascade hands on: the text it took, by the stage
\* that took it and its length.  Advance: the stage returned nothing.
Out(stage, len) == [stage |-> stage, len |-> len]
Advance == Out("advance", 0)
EmptyString == Out("none", 0)

\* The first text of a list longer than the threshold (0: there is none):
\* the loop over content_selectors, by the elements the selectors match.
RECURSIVE FirstOver(_, _)
FirstOver(lens, i) ==
    IF i > Len(lens) THEN 0
    ELSE IF lens[i] > MinContent THEN i
    ELSE FirstOver(lens, i + 1)

\* Method 1 of extract_main_content: extract_structured_content, then
\* clean_html_to_markdown; what is not empty is returned.
Structured(d) ==
    IF d.structured = Raises THEN Advance
    ELSE IF d.structured > 0 THEN Out("structured", d.structured)
    ELSE IF d.markdown > 0 THEN Out("markdown", d.markdown)
    ELSE Advance

\* The selectolax method: the selectors, then the body.
Fast(d) ==
    IF d.fast_raises THEN Advance
    ELSE LET i == FirstOver(d.fast_blocks, 1)
         IN  IF i > 0 THEN Out("fast selector", d.fast_blocks[i])
             ELSE IF d.fast_body > MinContent
                  THEN Out("fast body", d.fast_body)
             ELSE Advance

\* BeautifulSoup's selectors
Selectors(d) ==
    LET i == FirstOver(d.blocks, 1)
    IN  IF i > 0 THEN Out("selector", d.blocks[i]) ELSE Advance

\* The body without script, style, nav, footer, header, aside and menu
Body(d) == IF d.body > MinContent THEN Out("body", d.body) ELSE Advance

\* The document with its tags removed by a regular expression
Regex(d) ==
    IF d.stripped > MinContent THEN Out("regex", d.stripped) ELSE Advance

\* The text of the title element
Title(d) == IF d.title > MinTitle THEN Out("title", d.title) ELSE Advance

\* The first of a list of stage results that is not Advance, or "".
RECURSIVE FirstResult(_)
FirstResult(outs) ==
    IF outs = <<>> THEN EmptyString
    ELSE IF Head(outs) # Advance THEN Head(outs)
    ELSE FirstResult(Tail(outs))

\* From BeautifulSoup(html_content, parser_name) to the end: the parse is
\* inside the outer try only, whose handler returns "".
SoupStages(d) ==
    IF d.soup_raises THEN EmptyString
    ELSE FirstResult(<<Selectors(d), Body(d), Regex(d), Title(d)>>)

\* UnifiedContentExtractor.extract
UnifiedExtract(d, av) ==
    IF d.empty THEN EmptyString
    ELSE LET fast == IF av.selectolax THEN Fast(d) ELSE Advance
         IN  IF fast # Advance THEN fast ELSE SoupStages(d)

\* ContentExtractor.extract_main_content
extract_main_content(d, av) ==
    IF d.empty THEN EmptyString
    ELSE LET first == IF av.content_utils THEN Structured(d) ELSE Advance
         IN  IF first # Advance THEN first ELSE UnifiedExtract(d, av)

\* The documents: per stage, the length of the text it finds (Raises: the
\* stage raises), at both sides of the stage's threshold.
Documents ==
    [empty : {FALSE},
     structured : {Raises, 0, MinContent, MinContent + 1},
     markdown : {0, MinContent + 1},
     fast_raises : BOOLEAN,
     fast_blocks : {<<>>, <<MinContent, MinContent + 1>>},
     fast_body : {MinContent, MinContent + 1},
     soup_raises : BOOLEAN,
     blocks : {<<>>, <<MinContent, MinContent + 1>>},
     body : {Raises, MinContent, MinContent + 1},
     stripped : {0, MinContent, MinContent + 1},
     title : {Raises, 0, MinTitle, MinTitle + 1}]

\* html_content == ""
EmptyHtml ==
    [empty |-> TRUE, structured |-> 0, markdown |-> 0, fast_raises |-> FALSE,
     fast_blocks |-> <<>>, fast_body |-> 0, soup_raises |-> FALSE,
     blocks |-> <<>>, body |-> 0, stripped |-> 0, title |-> 0]

\* CONTENT_UTILS_AVAILABLE and SELECTOLAX_AVAILABLE
Availabilities == [content_utils : BOOLEAN, selectolax : BOOLEAN]

Extractors == {"ContentExtractor", "UnifiedContentExtractor"}

\* A call of one of the two extractors on the document.
Extract(x) ==
    /\ extracted = NotExtracted
    /\ extracted' =
          [by |-> x,
           out |-> IF x = "ContentExtractor"
                   THEN extract_main_content(html, available)
                   ELSE UnifiedExtract(html, available)]
    /\ UNCHANGED <<html, available, coreVars, pageVars, proxyVars, processVars,
                   utilVars>>

InitExtract ==
    /\ EngineIdle
    /\ FetchIdle
    /\ MultiIdle
    /\ html \in Documents \cup {EmptyHtml}
    /\ available \in Availabilities
    /\ extracted = NotExtracted
    /\ PageIdle
    /\ ProxyIdle
    /\ ProcessIdle
    /\ UtilIdle

NextExtract == \E x \in Extractors : Extract(x)

SpecExtract == InitExtract /\ [][NextExtract]_vars

(***************************************************************************)
(* SpecPage: extract_search_results, that is GoogleSpecificExtractor's     *)
(* extract, over result pages given by the containers each selector        *)
(* family matches and by the anchors of the page.                          *)
(***************************************************************************)
\* hrefs: two absolute ones, a relative one, and one into google.com
Link1 == "http://a.example/1"
Link2 == "http://b.example/2"
RelativeLink == "/relative"
GoogleLink == "http://www.google.com/url"

\* link.startswith("http")
StartsWithHttp(link) == link \in {Link1, Link2, GoogleLink}

\* "google.com" in link
InGoogle(link) == link = GoogleLink

\* The index of the selector sets (selector_sets has NFamilies entries).
Families == 1 .. NFamilies

\* A container that the container selector of a family matches: the text
\* of its title element ("" when it has none or an empty one) and the href
\* found for it ("" when there is none).
Container(family, title, link) ==
    [family |-> family, title |-> title, link |-> link]

\* An anchor matched by a[href^='http']: its text and its href.
Anchor(title, link) == [title |-> title, link |-> link]

\* A result dict.  family is not a key of the dict: it records the selector
\* family that made the entry, 0 for the whole-page fallback.
Entry(title, link, family) ==
    [title |-> title, link |-> link, family |-> family]

LinksOf(rs) == {rs[i].link : i \in 1 .. Len(rs)}

\* Mutant: a URL already seen is taken again.
SeenNever(link, rs) == FALSE

\* link in seen_urls
Seen(link, rs) == link \in LinksOf(rs)

\* len(results) >= max_results
Full(rs, max_results) == Len(rs) >= max_results

\* Mutant: the families after the first that extracted results are skipped.
FirstFamilyOnly(c, rs) == rs # <<>> /\ rs[Len(rs)].family # c.family

\* Whether a container is passed over because of the family it is in: the
\* loop over selector_sets goes through every family.
OtherFamily(c, rs) == FALSE

\* The loops over selector_sets and over the containers of each, by the
\* containers in the order the loops reach them.
RECURSIVE FromContainers(_, _, _)
FromContainers(containers, max_results, rs) ==
    IF containers = <<>> THEN rs
    ELSE LET c == Head(containers)
             skip == \/ Full(rs, max_results)
                     \/ OtherFamily(c, rs)
                     \/ c.link = ""
                     \/ ~StartsWithHttp(c.link)
                     \/ Seen(c.link, rs)
                     \/ c.title = ""
         IN  FromContainers(Tail(containers), max_results,
                 IF skip THEN rs
                 ELSE Append(rs, Entry(c.title, c.link, c.family)))

\* if len(results) < max_results
FallbackNeeded(rs, max_results) == Len(rs) < max_results

\* The fallback loop over the anchors of the page.
RECURSIVE FromAnchors(_, _, _)
FromAnchors(anchors, max_results, rs) ==
    IF anchors = <<>> THEN rs
    ELSE LET a == Head(anchors)
             skip == \/ Full(rs, max_results)
                     \/ a.link = ""
                     \/ ~StartsWithHttp(a.link)
                     \/ InGoogle(a.link)
                     \/ Seen(a.link, rs)
                     \/ a.title = ""
         IN  FromAnchors(Tail(anchors), max_results,
                 IF skip THEN rs ELSE Append(rs, Entry(a.title, a.link, 0)))

\* GoogleSpecificExtractor.extract(html_content, max_results=max_results)
extract_search_results(p, max_results) ==
    LET structured == FromContainers(p.containers, max_results, <<>>)
        all == IF FallbackNeeded(structured, max_results)
               THEN FromAnchors(p.anchors, max_results, structured)
               ELSE structured
    IN  Sliced(all, max_results)

\* The pages: up to MaxContainers containers, listed family by family, and
\* up to MaxAnchors anchors.
ContainerKinds ==
    {Container(f, "a title", l) :
        f \in Families, l \in {Link1, Link2, RelativeLink}}
    \cup {Container(f, "", Link1) : f \in Families}
AnchorKinds ==
    {Anchor("a text", l) : l \in {Link1, Link2, GoogleLink}}
    \cup {Anchor("", Link2)}
FamilyByFamily(cs) ==
    \A i \in 1 .. Len(cs) - 1 : cs[i].family <= cs[i + 1].family
ResultPages ==
    [containers : {cs \in SeqsUpTo(ContainerKinds, MaxContainers) :
                      FamilyByFamily(cs)},
     anchors : SeqsUpTo(AnchorKinds, MaxAnchors)]

\* extract_search_results(html_content, max_results=n) on the page
ExtractResults(n) ==
    /\ ~page_done
    /\ page_done' = TRUE
    /\ wanted' = n
    /\ page_results' = extract_search_results(result_page, n)
    /\ UNCHANGED <<result_page, coreVars, extractVars, proxyVars,
                   processVars, utilVars>>

InitPage ==
    /\ EngineIdle
    /\ FetchIdle
    /\ MultiIdle
    /\ ExtractIdle
    /\ ProxyIdle
    /\ ProcessIdle
    /\ UtilIdle
    /\ result_page \in ResultPages
    /\ page_done = FALSE
    /\ wanted = 0
    /\ page_results = <<>>

NextPage == \E n \in 0 .. MaxWanted : ExtractResults(n)

SpecPage == InitPage /\ [][NextPage]_vars

(***************************************************************************)
(* SpecProxy: the proxy pool of bypass.py.  get_proxies and                *)
(* refresh_proxies are coroutines: callers run them concurrently, and      *)
(* each request of a source and each probe of a candidate is a suspension  *)
(* point.                                                                  *)
(***************************************************************************)
\* fallback_proxies
fallback_proxies == <<"127.0.0.1:8080", "127.0.0.1:1080">>

\* test_proxy(proxy): the probe through the proxy got status 200
test_proxy(proxy) == proxy \in alive

\* Mutant: a candidate is kept whatever its probe said.
KeptAnyway(valid_proxies, proxy, ok) == Append(valid_proxies, proxy)

\* if await test_proxy(proxy): valid_proxies.append(proxy)
Kept(valid_proxies, proxy, ok) ==
    IF ok THEN Append(valid_proxies, proxy) ELSE valid_proxies

\* Mutant: nothing found stays nothing.
NoFallback(all) == all

\* if not all_proxies: all_proxies = fallback_proxies
WithFallback(all) == IF all = <<>> THEN fallback_proxies ELSE all

\* Mutant: the age of the pool alone decides.
FreshByAge(current_time, last, pool) == current_time - last < RefreshInterval

\* current_time - last_proxy_refresh < 1800 and len(proxies) > 5
CacheFresh(current_time, last, pool) ==
    current_time - last < RefreshInterval /\ Len(pool) > MinPool

\* Mutant: the pool becomes what is handed to the caller.
ReturnedAsPool(via, pool, given) == given

\* What the caller gets, and with it the pool after refresh_proxies'
\* `proxies = await get_proxies(20)`.
PoolAfter(via, pool, given) == IF via = "refresh_proxies" THEN given ELSE pool

\* The end of get_proxies, lines 91-103, from the last source on.
EndRefresh(c, me, all) ==
    LET pool == WithFallback(all)
        given == Sliced(pool, me.count)
    IN  /\ proxies' = PoolAfter(me.via, pool, given)
        /\ last_proxy_refresh' = me.current_time
        /\ pool_passed' = me.passed
        /\ callers' = [callers EXCEPT ![c] =
              [me EXCEPT !.pc = "done", !.all_proxies = pool,
                         !.returned = given]]

\* The loop over PROXY_SOURCES goes on to the next source, or ends.
NextSource(c, me, all) ==
    IF me.source < NSources
    THEN /\ callers' = [callers EXCEPT ![c] =
               [me EXCEPT !.source = @ + 1, !.pc = "source",
                          !.all_proxies = all]]
         /\ UNCHANGED <<proxies, last_proxy_refresh, pool_passed>>
    ELSE EndRefresh(c, me, all)

\* get_proxies(count), by itself or from refresh_proxies, up to its return
\* from the cache or to the request of the first source.
StartCall(c, via, count) ==
    /\ callers[c].pc \in {"idle", "done"}
    /\ LET me == [IdleCaller EXCEPT !.via = via, !.count = count,
                                    !.current_time = now, !.stale = proxies]
       IN  IF CacheFresh(now, last_proxy_refresh, proxies)
           THEN LET given == Sliced(proxies, count)
                IN  /\ callers' = [callers EXCEPT ![c] =
                          [me EXCEPT !.pc = "done", !.returned = given,
                                     !.cached = TRUE]]
                    /\ proxies' = PoolAfter(via, proxies, given)
           ELSE /\ callers' = [callers EXCEPT ![c] =
                      [me EXCEPT !.pc = "source", !.source = 1]]
                /\ UNCHANGED proxies
    /\ UNCHANGED <<sourceNet, alive, now, last_proxy_refresh, pool_passed,
                   retried, failed_at, coreVars, extractVars, pageVars,
                   processVars, utilVars>>

get_proxies(c, count) == StartCall(c, "get_proxies", count)

refresh_proxies(c) == StartCall(c, "refresh_proxies", RefreshCount)

\* The answer of a source: a failure goes on to the next source, a page to
\* the probe of its first candidate, of the first TestLimit it lists.
SourceResponse(c) ==
    /\ callers[c].pc = "source"
    /\ LET me == callers[c]
           answer == sourceNet[me.source]
           found == Sliced(answer.found, TestLimit)
       IN  IF answer.ok /\ found # <<>>
           THEN /\ callers' = [callers EXCEPT ![c] =
                      [me EXCEPT !.pc = "probe", !.found_proxies = found,
                                 !.proxy = 1, !.valid_proxies = <<>>]]
                /\ UNCHANGED <<proxies, last_proxy_refresh, pool_passed>>
           ELSE NextSource(c, me, me.all_proxies)
    /\ UNCHANGED <<sourceNet, alive, now, retried, failed_at,
                   coreVars, extractVars, pageVars, processVars, utilVars>>

\* The probe of a candidate has answered.
TestResponse(c) ==
    /\ callers[c].pc = "probe"
    /\ LET me == callers[c]
           proxy == me.found_proxies[me.proxy]
           ok == test_proxy(proxy)
           valid == Kept(me.valid_proxies, proxy, ok)
           passed == IF proxy \in alive THEN me.passed \cup {proxy}
                     ELSE me.passed
       IN  /\ retried' =
                 IF failed_at[proxy] >= 0
                    /\ now - failed_at[proxy] < RefreshInterval
                 THEN retried \cup {proxy} ELSE retried
           /\ failed_at' = IF proxy \in alive THEN failed_at
                           ELSE [failed_at EXCEPT ![proxy] = me.current_time]
           /\ IF me.proxy < Len(me.found_proxies)
              THEN /\ callers' = [callers EXCEPT ![c] =
                         [me EXCEPT !.proxy = @ + 1, !.valid_proxies = valid,
                                    !.passed = passed]]
                   /\ UNCHANGED <<proxies, last_proxy_refresh, pool_passed>>
              ELSE NextSource(c, [me EXCEPT !.valid_proxies = valid,
                                            !.passed = passed],
                              me.all_proxies \o valid)
    /\ UNCHANGED <<sourceNet, alive, now, coreVars, extractVars, pageVars,
                   processVars, utilVars>>

\* select_proxy(): None without a pool, or random.choice(proxies); the
\* values it can return.
select_proxy ==
    IF proxies = <<>> THEN {"None"}
    ELSE {proxies[i] : i \in 1 .. Len(proxies)}

\* The clock of the event loop moves on.
Tick ==
    /\ now < StartTime + MaxTicks * TickLength
    /\ now' = now + TickLength
    /\ UNCHANGED <<sourceNet, alive, proxies, last_proxy_refresh, callers,
                   pool_passed, retried, failed_at,
                   coreVars, extractVars, pageVars, processVars, utilVars>>

\* The networks: no source answers; every source lists the same three
\* candidates; the sources differ; and which of the candidates are alive.
Listed == <<"10.0.0.1:80", "10.0.0.2:80", "10.0.0.3:80">>
SourceNets ==
    {[s \in Sources |-> SourceDown],
     [s \in Sources |-> Listing(Listed)],
     [s \in Sources |-> IF s = 1 THEN Listing(Listed)
                        ELSE IF s = 2 THEN SourceDown
                        ELSE IF s = 3 THEN Listing(<<"10.0.0.2:80">>)
                        ELSE Listing(<<>>)]}
AliveSets == {{}, {"10.0.0.1:80", "10.0.0.2:80"}, Candidates}

InitProxy ==
    /\ EngineIdle
    /\ FetchIdle
    /\ MultiIdle
    /\ ExtractIdle
    /\ PageIdle
    /\ ProcessIdle
    /\ UtilIdle
    /\ sourceNet \in SourceNets
    /\ alive \in AliveSets
    /\ now = StartTime
    /\ proxies = <<>>
    /\ last_proxy_refresh = 0
    /\ callers = [c \in Callers |-> IdleCaller]
    /\ pool_passed = {}
    /\ retried = {}
    /\ failed_at = [a \in Candidates |-> -1]

NextProxy ==
    \/ \E c \in Callers, count \in Counts : get_proxies(c, count)
    \/ \E c \in Callers : refresh_proxies(c)
    \/ \E c \in Callers : SourceResponse(c)
    \/ \E c \in Callers : TestResponse(c)
    \/ Tick

SpecProxy == InitProxy /\ [][NextProxy]_vars

(***************************************************************************)
(* ConcurrentProcessor.process_concurrently: one process_single task per   *)
(* operation, each behind the semaphore, gathered under asyncio.wait_for   *)
(* when the processor has a timeout.                                       *)
(***************************************************************************)
\* An operation: a coroutine function or a plain function (run in the
\* thread pool), which takes `duration` seconds and returns or raises.
Durations == {1, 2}
Timeouts == {NoTimeout, 1, 2, 3}
Permits == {1, 2}
OpKinds == [coroutine : BOOLEAN, fails : BOOLEAN, duration : Durations]
OperationLists ==
    UNION {[1 .. n -> OpKinds] : n \in 0 .. MaxOps}
NameOfOp(i) == IF i = 1 THEN "op1" ELSE IF i = 2 THEN "op2" ELSE "op3"

\* What process_single returns for operation i: its value, or the dict
\* naming the operation that raised.
SingleResult(i) ==
    IF operations[i].fails
    THEN [error |-> TRUE, operation |-> NameOfOp(i)]
    ELSE [error |-> FALSE, operation |-> NameOfOp(i)]

Ops == 1 .. Len(operations)

\* The operations of the process_concurrently call under way: all of them,
\* or the batch process_batch has handed over.
Group == group.lo .. group.hi

\* The operations whose process_single holds a permit of the semaphore,
\* and those that execute: a plain function whose task was cancelled runs
\* on in its thread ("stray") without a permit.
Running == {i \in Ops : op_state[i].status = "running"}
Executing == {i \in Ops : op_state[i].status \in {"running", "stray"}}
GroupDone == \A i \in Group : op_state[i].status = "done"
Gathered ==
    [k \in 1 .. group.hi - group.lo + 1 |-> SingleResult(group.lo + k - 1)]
DoneResults ==
    [k \in 1 .. group.hi - group.lo + 1 |->
        IF op_state[group.lo + k - 1].status = "done"
        THEN SingleResult(group.lo + k - 1)
        ELSE [error |-> FALSE, operation |-> NoOperation]]

\* The handler of asyncio.TimeoutError, were it to hand back what is done.
PartialOnTimeout(g) ==
    [g EXCEPT !.pc = "returned", !.results = DoneResults,
              !.finished_at = clock]

\* The handler of asyncio.TimeoutError: log and re-raise. The exception
\* is the one wait_for made; it names no operation.
OnTimeout(g) ==
    [g EXCEPT !.pc = "raised", !.raised = "TimeoutError",
              !.operation = NoOperation, !.finished_at = clock]

\* The timer of wait_for is due.
TimerDue ==
    /\ group.pc = "gathering"
    /\ timeout_seconds # NoTimeout
    /\ clock - group.called_at >= timeout_seconds

\* Operation i can take a permit of the semaphore: one is free and no
\* earlier task waits for it.
CanAcquire(i) ==
    /\ i \in Group
    /\ op_state[i].status = "new"
    /\ Cardinality(Running) < max_concurrent
    /\ \A j \in 1 .. i - 1 : op_state[j].status # "new"

\* Operation i has run for its duration.
Due(i) ==
    /\ i \in Executing
    /\ clock >= op_state[i].started + operations[i].duration

\* The `except Exception` of process_batch: an error for each item of the
\* batch whose process_concurrently raised.
BatchErrors(g) ==
    [k \in 1 .. g.hi - g.lo + 1 |-> [error |-> TRUE, operation |-> NoOperation]]

\* The batch after the one that ended: items[i:i + batch_size].
NextBatch(g) ==
    [g EXCEPT !.pc = "gathering", !.results = <<>>, !.raised = "none",
              !.lo = g.hi + 1,
              !.hi = Min(g.hi + g.batch_size, Len(operations)),
              !.called_at = clock]

\* Where a process_concurrently call that returned or raised goes back to:
\* its caller, or the loop of process_batch, which adds the batch's
\* results, or its errors, and hands over the next batch at once.
AfterGroup(g) ==
    IF g.via # "process_batch" THEN g
    ELSE LET more == IF g.pc = "raised" THEN BatchErrors(g) ELSE g.results
             h == [g EXCEPT !.batch_results = @ \o more]
         IN  IF g.hi < Len(operations) THEN NextBatch(h)
             ELSE [h EXCEPT !.pc = "batch done"]

\* process_concurrently is called: the tasks are made and gathered.
process_concurrently ==
    /\ group.pc = "idle"
    /\ group' = [group EXCEPT !.pc = "gathering",
                              !.via = "process_concurrently",
                              !.hi = Len(operations), !.called_at = clock]
    /\ op_state' = [i \in Ops |-> NewSingle]
    /\ UNCHANGED <<timeout_seconds, max_concurrent, operations, clock,
                   coreVars, extractVars, pageVars, proxyVars, utilVars>>

\* process_batch(items, processor_func, batch_size) with a plain function:
\* each item becomes a lambda, which process_single runs in the thread
\* pool, and the first batch is handed to process_concurrently.
process_batch(batch_size) ==
    /\ group.pc = "idle"
    /\ \A i \in Ops : ~operations[i].coroutine
    /\ group' =
         IF operations = <<>>
         THEN [group EXCEPT !.pc = "batch done", !.via = "process_batch",
                            !.batch_size = batch_size]
         ELSE NextBatch([group EXCEPT !.via = "process_batch",
                                      !.batch_size = batch_size])
    /\ op_state' = [i \in Ops |-> NewSingle]
    /\ UNCHANGED <<timeout_seconds, max_concurrent, operations, clock,
                   coreVars, extractVars, pageVars, proxyVars, utilVars>>

\* process_single(i) enters the semaphore and starts its operation.
Acquire(i) ==
    /\ group.pc = "gathering"
    /\ CanAcquire(i)
    /\ op_state' = [op_state EXCEPT ![i] = [status |-> "running",
                                            started |-> clock]]
    /\ UNCHANGED <<timeout_seconds, max_concurrent, operations, clock, group,
                   coreVars, extractVars, pageVars, proxyVars, utilVars>>

\* Operation i ends, by returning or by raising, and process_single
\* leaves the semaphore. A plain function in the thread pool ends even
\* after the group was given up.
OperationEnds(i) ==
    /\ group.pc # "idle"
    /\ Due(i)
    /\ op_state' = [op_state EXCEPT ![i].status = "done"]
    /\ UNCHANGED <<timeout_seconds, max_concurrent, operations, clock, group,
                   coreVars, extractVars, pageVars, proxyVars, utilVars>>

\* Every task is done: gather has the results, in the order of the
\* operations, and process_concurrently returns them.
GatherReturns ==
    /\ group.pc = "gathering"
    /\ GroupDone
    /\ group' = AfterGroup([group EXCEPT !.pc = "returned",
                                         !.results = Gathered,
                                         !.finished_at = clock])
    /\ UNCHANGED <<timeout_seconds, max_concurrent, operations, op_state,
                   clock, coreVars, extractVars, pageVars, proxyVars, utilVars>>

\* The timer of wait_for fires before gather is done: the tasks are
\* cancelled (a function already in the thread pool runs on) and
\* process_concurrently re-raises asyncio.TimeoutError.
WaitForTimesOut ==
    /\ TimerDue
    /\ group' = AfterGroup(OnTimeout(group))
    /\ op_state' =
         [i \in Ops |->
            IF i \notin Group \/ op_state[i].status = "done"
            THEN op_state[i]
            ELSE IF op_state[i].status = "running" /\ ~operations[i].coroutine
            THEN [op_state[i] EXCEPT !.status = "stray"]
            ELSE [op_state[i] EXCEPT !.status = "cancelled"]]
    /\ UNCHANGED <<timeout_seconds, max_concurrent, operations, clock,
                   coreVars, extractVars, pageVars, proxyVars, utilVars>>

\* A second passes in which nothing is due.
SecondPasses ==
    /\ group.pc # "idle"
    /\ Executing # {}
    /\ ~TimerDue
    /\ \A i \in Ops : ~Due(i) /\ ~(group.pc = "gathering" /\ CanAcquire(i))
    /\ clock' = clock + 1
    /\ UNCHANGED <<timeout_seconds, max_concurrent, operations, op_state,
                   group, coreVars, extractVars, pageVars, proxyVars, utilVars>>

InitProcess ==
    /\ EngineIdle
    /\ FetchIdle
    /\ MultiIdle
    /\ ExtractIdle
    /\ PageIdle
    /\ ProxyIdle
    /\ UtilIdle
    /\ timeout_seconds \in Timeouts
    /\ max_concurrent \in Permits
    /\ operations \in OperationLists
    /\ op_state = <<>>
    /\ clock = 0
    /\ group = NoOutcome

BatchSizes == {1, 2}

NextProcess ==
    \/ process_concurrently
    \/ \E batch_size \in BatchSizes : process_batch(batch_size)
    \/ \E i \in Ops : Acquire(i)
    \/ \E i \in Ops : OperationEnds(i)
    \/ GatherReturns
    \/ WaitForTimesOut
    \/ SecondPasses

SpecProcess == InitProcess /\ [][NextProcess]_vars

(***************************************************************************)
(* ErrorRecoveryStrategy.execute_with_recovery: the operation is awaited,  *)
(* and after a failure awaited again behind a sleep.                       *)
(***************************************************************************)
\* How an invocation of the operation ends: it returns a value or raises.
Values == {"v1", "v2"}
Errors == {"TimeoutError", "ValueError"}
Outcomes == [ok : {TRUE}, what : Values] \cup [ok : {FALSE}, what : Errors]

\* Mutant: the loop gives up one attempt later.
OneMoreAttempt(r) == r.attempt = r.max_retries + 1

\* `if attempt == self.max_retries: break`, at the end of the range too
LastAttempt(r) == r.attempt = r.max_retries

\* execute_with_recovery(operation): attempt 0 awaits the operation at
\* once.
execute_with_recovery ==
    /\ recovery.pc = "idle"
    /\ recovery' = [recovery EXCEPT !.pc = "operation", !.attempt = 0]
    /\ UNCHANGED <<fbcall, pagination, lru, coreVars, extractVars, pageVars,
                   proxyVars, processVars>>

\* The operation returned, which execute_with_recovery returns, or raised:
\* the error is kept and, unless this was the last attempt, the next one
\* starts with its sleep.
OperationResult(o) ==
    /\ recovery.pc = "operation"
    /\ LET r == [recovery EXCEPT !.history = Append(@, o)]
       IN  recovery' =
             IF o.ok THEN [r EXCEPT !.pc = "returned", !.value = o.what]
             ELSE IF LastAttempt(r)
             THEN [r EXCEPT !.pc = "raised", !.raised = o.what]
             ELSE [r EXCEPT !.pc = "sleep", !.attempt = @ + 1]
    /\ UNCHANGED <<fbcall, pagination, lru, coreVars, extractVars, pageVars,
                   proxyVars, processVars>>

\* asyncio.sleep(backoff_factor ** (attempt - 1)) is over: the operation
\* is awaited again.
RetryAfterSleep ==
    /\ recovery.pc = "sleep"
    /\ recovery' = [recovery EXCEPT !.pc = "operation"]
    /\ UNCHANGED <<fbcall, pagination, lru, coreVars, extractVars, pageVars,
                   proxyVars, processVars>>

InitRecovery ==
    /\ EngineIdle
    /\ FetchIdle
    /\ MultiIdle
    /\ ExtractIdle
    /\ PageIdle
    /\ ProxyIdle
    /\ ProcessIdle
    /\ \E m \in 0 .. MaxRetries :
          recovery = [NoRecovery EXCEPT !.max_retries = m]
    /\ fbcall = NoFallbackCall
    /\ pagination = NoPagination
    /\ lru = NoCache

NextRecovery ==
    \/ execute_with_recovery
    \/ \E o \in Outcomes : OperationResult(o)
    \/ RetryAfterSleep

SpecRecovery == InitRecovery /\ [][NextRecovery]_vars

(***************************************************************************)
(* SearchFallbackStrategy.execute_with_fallback and                        *)
(* ContentRetrievalFallback.execute_with_fallback: the primary operation,  *)
(* and after its failure the fallback operations of the dict, in the       *)
(* dict's order.                                                           *)
(***************************************************************************)
FallbackClasses == {"SearchFallbackStrategy", "ContentRetrievalFallback"}
FallbackNames == {"bing", "duckduckgo", "archive"}

\* The dicts of fallback operations, as the lists of their keys.
FallbackDicts ==
    {ops \in SeqsUpTo(FallbackNames, MaxFallbacks) :
        \A i, j \in 1 .. Len(ops) : ops[i] = ops[j] => i = j}

\* An operation may also return a value that is false in a test, such as
\* None or an empty list.
FalsyValues == {"None", "[]"}
AnyOutcomes == Outcomes \cup [ok : {TRUE}, what : FalsyValues]

\* Mutant: every result of a fallback is taken.
AnyResult(result) == TRUE

\* `if result:`
Truthy(result) == result \notin FalsyValues

\* str(e)
StrOf(e) == <<"str", e>>

\* What a primary operation's value is returned as: itself.
Plain(value) == [status |-> "none", method |-> "none", data |-> value,
                 fallback_reason |-> <<>>]

\* The dict returned for a fallback's result.
FallbackSuccess(name, result, e) ==
    [status |-> "fallback_success", method |-> name, data |-> result,
     fallback_reason |-> StrOf(e)]

\* The for loop goes to the entry behind idx: the next fallback is
\* awaited, or behind the last one `raise e`.
TryNextFallback(f) ==
    IF f.idx = Len(f.fallback_operations)
    THEN [f EXCEPT !.pc = "raised", !.raised = f.e]
    ELSE [f EXCEPT !.pc = "fallback", !.idx = @ + 1,
                   !.called = Append(@, f.fallback_operations[f.idx + 1])]

\* execute_with_fallback(primary_operation, fallback_operations)
execute_with_fallback ==
    /\ fbcall.pc = "idle"
    /\ fbcall' = [fbcall EXCEPT !.pc = "primary", !.called = <<"primary">>]
    /\ UNCHANGED <<recovery, pagination, lru, coreVars, extractVars, pageVars,
                   proxyVars, processVars>>

\* The primary operation returned, which is returned, or raised e.
PrimaryResult(o) ==
    /\ fbcall.pc = "primary"
    /\ LET f == [fbcall EXCEPT !.answers = Append(@, o)]
       IN  fbcall' =
             IF o.ok THEN [f EXCEPT !.pc = "returned",
                                    !.returned = Plain(o.what)]
             ELSE TryNextFallback([f EXCEPT !.e = o.what])
    /\ UNCHANGED <<recovery, pagination, lru, coreVars, extractVars, pageVars,
                   proxyVars, processVars>>

\* A fallback returned or raised.
FallbackResult(o) ==
    /\ fbcall.pc = "fallback"
    /\ LET f == [fbcall EXCEPT !.answers = Append(@, o)]
       IN  fbcall' =
             IF o.ok /\ Truthy(o.what)
             THEN [f EXCEPT !.pc = "returned",
                            !.returned = FallbackSuccess(
                                f.fallback_operations[f.idx], o.what, f.e)]
             ELSE TryNextFallback(f)
    /\ UNCHANGED <<recovery, pagination, lru, coreVars, extractVars, pageVars,
                   proxyVars, processVars>>

InitFallback ==
    /\ EngineIdle
    /\ FetchIdle
    /\ MultiIdle
    /\ ExtractIdle
    /\ PageIdle
    /\ ProxyIdle
    /\ ProcessIdle
    /\ recovery = NoRecovery
    /\ \E c \in FallbackClasses, ops \in FallbackDicts :
          fbcall = [NoFallbackCall EXCEPT !.class = c,
                                          !.fallback_operations = ops]
    /\ pagination = NoPagination
    /\ lru = NoCache

NextFallback ==
    \/ execute_with_fallback
    \/ \E o \in AnyOutcomes : PrimaryResult(o)
    \/ \E o \in AnyOutcomes : FallbackResult(o)

SpecFallback == InitFallback /\ [][NextFallback]_vars

(***************************************************************************)
(* MCPPaginationManager: a caller walks a list, handing each response's    *)
(* nextCursor to the next call of _paginate_generic.                       *)
(***************************************************************************)
\* Seconds a cursor stays valid.
CursorMaxAge == 86400

\* The limit argument; 0 stands for None, which `limit or default_limit`
\* treats alike.
Limits == 0 .. 3
DefaultLimits == {1, 2}
MaxLimits == {2, 3}

\* The list of n items
ItemList(n) == [i \in 1 .. n |-> i]

\* hashlib.md5(f"{page}:{limit}:{filters}:{sort_order}")
Checksum(p, limit) == <<"md5", p, limit, "{}", "default">>

\* min(max(1, limit), self.max_limit)
ClampLimit(limit, max_limit) ==
    Min(IF limit < 1 THEN 1 ELSE limit, max_limit)

\* create_cursor(page, limit): the limit is clamped once more, the
\* checksum covers the page and the clamped limit.
create_cursor(p, limit, max_limit, time) ==
    LET l == ClampLimit(limit, max_limit)
    IN  [timestamp |-> time, page |-> p, limit |-> l,
         checksum |-> Checksum(p, l)]

\* PaginationCursor.to_string: the JSON text of the fields
to_string(c) == <<"json", c.checksum, c.limit, c.page, c.timestamp>>

\* parse_cursor: the fields of the JSON text
parse_cursor(text) ==
    [timestamp |-> text[5], page |-> text[4], limit |-> text[3],
     checksum |-> text[2]]

\* validate_cursor: not older than 24 hours, and the checksum is that of
\* the page and limit
validate_cursor(c, time) ==
    /\ ~(time - c.timestamp > CursorMaxAge)
    /\ c.checksum = Checksum(c.page, c.limit)

\* items[start_idx:end_idx], indices from 0
Slice(items, start_idx, end_idx) ==
    SubSeq(items, Min(start_idx, Len(items)) + 1, Min(end_idx, Len(items)))

\* `page = current_cursor.page + 1`
PageAfterCursor(c) == c.page + 1

\* _paginate_generic(items, cursor_string, limit): the response
PaginatedResponse(m, cursor_string, limit, time) ==
    LET current_cursor ==
            IF cursor_string = <<>> THEN <<>>
            ELSE IF validate_cursor(parse_cursor(cursor_string), time)
                 THEN parse_cursor(cursor_string)
                 ELSE <<>>
        p == IF current_cursor # <<>> THEN PageAfterCursor(current_cursor)
             ELSE 1
        asked == IF current_cursor # <<>> THEN current_cursor.limit
                 ELSE IF limit = 0 THEN m.default_limit ELSE limit
        page_limit == ClampLimit(asked, m.max_limit)
        start_idx == (p - 1) * page_limit
        end_idx == start_idx + page_limit
        has_more == end_idx < Len(m.items)
    IN  [items |-> Slice(m.items, start_idx, end_idx),
         nextCursor |->
            IF has_more
            THEN to_string(create_cursor(p + 1, page_limit, m.max_limit, time))
            ELSE <<>>,
         total_count |-> Len(m.items),
         has_more |-> has_more]

\* The caller asks for the next page with the nextCursor it was given, at
\* first with none, until a response carries none.
paginate ==
    /\ ~pagination.ended
    /\ LET r == PaginatedResponse(pagination, pagination.cursor,
                                  pagination.limit, pagination.time)
       IN  pagination' = [pagination EXCEPT
                             !.responses = Append(@, r),
                             !.cursor = r.nextCursor,
                             !.ended = (r.nextCursor = <<>>)]
    /\ UNCHANGED <<recovery, fbcall, lru, coreVars, extractVars, pageVars,
                   proxyVars, processVars>>

\* The caller keeps a cursor for more than 24 hours before it goes on.
CursorAges ==
    /\ pagination.cursor # <<>>
    /\ pagination.waits < MaxWaits
    /\ pagination' = [pagination EXCEPT !.time = @ + CursorMaxAge + 1,
                                        !.waits = @ + 1]
    /\ UNCHANGED <<recovery, fbcall, lru, coreVars, extractVars, pageVars,
                   proxyVars, processVars>>

InitPaging ==
    /\ EngineIdle
    /\ FetchIdle
    /\ MultiIdle
    /\ ExtractIdle
    /\ PageIdle
    /\ ProxyIdle
    /\ ProcessIdle
    /\ recovery = NoRecovery
    /\ fbcall = NoFallbackCall
    /\ \E n \in 0 .. MaxListed, l \in Limits, d \in DefaultLimits,
          x \in MaxLimits :
          pagination = [NoPagination EXCEPT !.items = ItemList(n),
                                            !.limit = l,
                                            !.default_limit = d,
                                            !.max_limit = x]
    /\ lru = NoCache

NextPaging ==
    \/ paginate
    \/ CursorAges

SpecPaging == InitPaging /\ [][NextPaging]_vars

(***************************************************************************)
(* LRUCache: `cache` is the OrderedDict, oldest entry first, as the        *)
(* sequence of its entries.  `used` and `last` are history: the call at    *)
(* which each key was last put or read with success, and what the last     *)
(* call found and did.                                                     *)
(***************************************************************************)
CacheKeys == {"k1", "k2", "k3"}
CacheValues == {"a", "b"}
MaxSizes == {1, 2}
\* ttl_seconds; 0 stands for None, which `if self.ttl_seconds` treats alike.
Ttls == {0, 1}

KeysIn(cache) == {cache[i].key : i \in 1 .. Len(cache)}
EntryOf(cache, key) ==
    cache[CHOOSE i \in 1 .. Len(cache) : cache[i].key = key]

\* del self.cache[key]
Deleted(cache, key) == SelectSeq(cache, LAMBDA x : x.key # key)

\* Mutant: the entry put last is the one to go.
NewestKey(cache) == cache[Len(cache)].key

\* next(iter(self.cache))
oldest_key(cache) == cache[1].key

\* `if len(self.cache) >= self.max_size: del self.cache[oldest_key]`
AfterEviction(c) ==
    IF Len(c.cache) >= c.max_size
    THEN Deleted(c.cache, oldest_key(c.cache))
    ELSE c.cache

\* self.cache[key] = {...}: a present key keeps its place and gets the
\* new entry, a new key goes to the end.
Assigned(cache, x) ==
    IF x.key \in KeysIn(cache)
    THEN [i \in 1 .. Len(cache) |->
             IF cache[i].key = x.key THEN x ELSE cache[i]]
    ELSE Append(cache, x)

\* self.cache.move_to_end(key)
move_to_end(cache, key) ==
    Append(Deleted(cache, key), EntryOf(cache, key))

\* The TTL test of get
Expired(c, item) ==
    c.ttl_seconds # 0 /\ c.time - item.timestamp > c.ttl_seconds

\* What the call finds: the cache and the history before it.  Every call
\* counts.
Called(op, key) ==
    [NoCacheCall EXCEPT !.op = op, !.key = key,
                        !.before = lru.cache, !.used = lru.used]

\* put(key, value)
put(key, value) ==
    /\ lru.calls < MaxCalls
    /\ LET x == [key |-> key, value |-> value, timestamp |-> lru.time]
           kept == AfterEviction(lru)
           gone == KeysIn(lru.cache) \ KeysIn(kept)
       IN  lru' = [lru EXCEPT
                     !.cache = move_to_end(Assigned(kept, x), key),
                     !.calls = @ + 1,
                     !.used = [@ EXCEPT ![key] = lru.calls + 1],
                     !.last = [Called("put", key) EXCEPT
                                  !.value = value,
                                  !.removed = IF gone = {} THEN "none"
                                              ELSE CHOOSE k \in gone : TRUE]]
    /\ UNCHANGED <<recovery, fbcall, pagination, coreVars, extractVars,
                   pageVars, proxyVars, processVars>>

\* get(key): None for a key that is not there, and for an expired entry,
\* which is deleted; else the value, and the entry is the newest.
get(key) ==
    /\ lru.calls < MaxCalls
    /\ lru' =
         IF key \notin KeysIn(lru.cache)
         THEN [lru EXCEPT !.calls = @ + 1, !.last = Called("get", key)]
         ELSE IF Expired(lru, EntryOf(lru.cache, key))
         THEN [lru EXCEPT !.cache = Deleted(@, key),
                          !.calls = @ + 1,
                          !.last = [Called("get", key) EXCEPT
                                       !.removed = key]]
         ELSE [lru EXCEPT !.cache = move_to_end(@, key),
                          !.calls = @ + 1,
                          !.used = [@ EXCEPT ![key] = lru.calls + 1],
                          !.last = [Called("get", key) EXCEPT
                                       !.value =
                                          EntryOf(lru.cache, key).value]]
    /\ UNCHANGED <<recovery, fbcall, pagination, coreVars, extractVars,
                   pageVars, proxyVars, processVars>>

\* A second passes on the clock of datetime.now().
CacheAges ==
    /\ lru.ttl_seconds # 0
    /\ lru.time < MaxAgeing
    /\ lru' = [lru EXCEPT !.time = @ + 1]
    /\ UNCHANGED <<recovery, fbcall, pagination, coreVars, extractVars,
                   pageVars, proxyVars, processVars>>

InitCache ==
    /\ EngineIdle
    /\ FetchIdle
    /\ MultiIdle
    /\ ExtractIdle
    /\ PageIdle
    /\ ProxyIdle
    /\ ProcessIdle
    /\ recovery = NoRecovery
    /\ fbcall = NoFallbackCall
    /\ pagination = NoPagination
    /\ \E m \in MaxSizes, t \in Ttls :
          lru = [NoCache EXCEPT !.max_size = m, !.ttl_seconds = t,
                                !.used = [k \in CacheKeys |-> 0]]

NextCache ==
    \/ \E k \in CacheKeys, v \in CacheValues : put(k, v)
    \/ \E k \in CacheKeys : get(k)
    \/ CacheAges

SpecCache == InitCache /\ [][NextCache]_vars

(***************************************************************************)
(* Properties of the engine and its link-follower.                         *)
(***************************************************************************)
RequestsOf(s, o) == {r \in requests : r.search = s /\ r.origin = o}
KidsOf(t) == {k \in 1 .. Len(tasks[t].kids) : TRUE}

\* C1: within the life of one visited set, whatever the order in which the
\* concurrent depth-1 and depth-2 tasks run, no URL is requested twice.
C1_FetchedAtMostOnce == \A u \in Urls : reqCount[u] <= 1

\* A depth-2 task found its link already visited while a sibling depth-1
\* task was still waiting: the URL was requested once, not twice.
C1_Witness ==
    /\ pc = "follow"
    /\ ~clientStrict
    /\ \E t \in 1 .. Len(tasks) : tasks[t].st = "wait"
    /\ \E t \in 1 .. Len(tasks) : \E k \in KidsOf(t) :
          /\ tasks[t].kids[k].st = "done"
          /\ ~tasks[t].kids[k].ok
          /\ ~FetchFails(tasks[t].kids[k].link)
          /\ reqCount[tasks[t].kids[k].link] = 1
          /\ \A r \in requests : r.url = tasks[t].kids[k].link
                                  => r.parent # tasks[t].link

\* C2: link-following ends for every link graph, cyclic ones included, and
\* no request is ever issued for a link found on a depth-2 page.
C2_TerminatesAtDepthTwo ==
    /\ [](\A r \in requests : r.depth <= 2)
    /\ (pc = "follow") ~> (pc = "idle")

\* The follower has ended on a cyclic graph after fetching a depth-2 page
\* that exposes NPaths same-domain links, none of which was requested.
C2_Witness ==
    /\ pc = "idle"
    /\ webFan = NPaths - 1
    /\ \E r \in requests :
          /\ r.depth = 2
          /\ ~FetchFails(r.url)
          /\ Len(pageLinks[r.url]) = InternalLinkLimit
          /\ r.origin \in Range(pageLinks[r.url])
          /\ \E u \in Range(pageLinks[r.url]) :
                reqCount[u] = 0

\* C3: for one origin page at most 10 pages are requested at depth 1, at
\* most 3 of them are expanded, at most 2 pages are requested under each,
\* and at most 17 pages in all, the origin included.
C3_FanOutBounded ==
    \A s \in 1 .. searches : \A o \in Origins :
       LET R == RequestsOf(s, o)
           D2 == {r \in R : r.depth = 2}
       IN  /\ Cardinality({r \in R : r.depth = 1}) <= InternalLinkLimit
           /\ Cardinality({r.parent : r \in D2}) <= max_links
           /\ \A p \in {r.parent : r \in D2} :
                 Cardinality({r \in D2 : r.parent = p}) <= ThirdLevelLimit
           /\ Cardinality(R) <= 1 + InternalLinkLimit
                                  + max_links * ThirdLevelLimit

\* An origin page exposing more than 10 same-domain links was followed:
\* 3 depth-1 pages were requested and 2 pages under one of them.
C3_Witness ==
    /\ webFan > InternalLinkLimit
    /\ \E s \in 1 .. searches : \E o \in Origins :
          LET R == RequestsOf(s, o)
          IN  /\ Cardinality({r \in R : r.depth = 1}) = max_links
              /\ \E p \in Urls :
                    Cardinality({r \in R : r.depth = 2 /\ r.parent = p})
                       = ThirdLevelLimit

\* C4: every URL requested at depth 1 or 2 has the host of the origin page
\* and of the page on which its link was found.
C4_SameHost ==
    \A r \in requests :
       r.depth >= 1 => /\ extract_domain(r.url) = extract_domain(r.origin)
                       /\ extract_domain(r.url) = extract_domain(r.parent)

\* Pages exposing a link to the other host were followed to depth 2, from
\* an origin on each host.
C4_Witness ==
    /\ webFan > 0
    /\ \E r \in requests : r.depth = 2 /\ r.origin.host = "b.example"
    /\ \A r \in requests :
          AbsHref(OtherHost(r.url.host), r.url.path)
             \in Range(Hrefs(r.url, webFan))

\* C5: the visited set is empty whenever a search() call starts.
C5_VisitedEmptyAtSearch ==
    [][searches' # searches => visited_urls = {}]_vars

(***************************************************************************)
(* Properties of base_fetch_url and batch_rival_retrieve.                  *)
(***************************************************************************)
Fetches == 1 .. Len(fetches)
ReqsOf(i) == fetches[i].reqs
Done(i) == fetches[i].pc = "done"
ArchiveStages == {"probe", "fallback", "mirror"}

\* the response carried content: a body that is not empty
GotContent(r) == r.resp \in Kinds /\ TextOf(r.resp) # {}
\* the response carried no content: no response, or an empty body
GotNothing(r) == r.resp \in Kinds /\ TextOf(r.resp) = {}

StageRank(stage) ==
    CASE stage = "bypass" -> 1
      [] stage = "httpx"  -> 2
      [] stage = "probe"  -> 3
      [] stage = "fallback" -> 3
      [] OTHER -> 4

\* C6: in every base_fetch_url call the requests are issued one at a time
\* (only the last one can be unanswered) and in the order bypass client,
\* standard client, archive fallback; the standard client's request is
\* issued only if the bypass client was skipped or gave no content, and the
\* no-content archive fallback (probe and fetch) only if the standard client
\* was asked and gave no content and the bypass client gave none either.
C6_StagesInOrder ==
    \A i \in Fetches :
        LET reqs == ReqsOf(i)
        IN  /\ \A a \in 1 .. Len(reqs) - 1 :
                  /\ reqs[a].resp # "pending"
                  /\ StageRank(reqs[a].stage) <= StageRank(reqs[a + 1].stage)
            /\ \A a \in 1 .. Len(reqs) :
                  /\ reqs[a].stage = "httpx" =>
                        \A b \in 1 .. a - 1 : GotNothing(reqs[b])
                  /\ reqs[a].stage \in {"probe", "fallback"} =>
                        /\ \E b \in 1 .. a - 1 : reqs[b].stage = "httpx"
                        /\ \A b \in 1 .. a - 1 :
                              reqs[b].stage \in {"bypass", "httpx"} =>
                                  GotNothing(reqs[b])

\* A call went through all three stages: the bypass client and the standard
\* client gave nothing and the copy of a probed archive service was fetched.
C6_Witness ==
    \E i \in Fetches :
        /\ Done(i)
        /\ Len(ReqsOf(i)) >= 4
        /\ ReqsOf(i)[1].stage = "bypass"
        /\ ReqsOf(i)[2].stage = "httpx"
        /\ ReqsOf(i)[Len(ReqsOf(i))].stage = "fallback"
        /\ fetches[i].out.status = "ok"

\* The first archive service, in ARCHIVE_FALLBACKS order, that answers 200
\* with a body that does not trip detect_paywall (0 if there is none).
FirstCleanArchive(url) ==
    LET ok == {k \in 1 .. Len(ARCHIVE_FALLBACKS) :
                  /\ net[url].arch[k] # "down"
                  /\ ~detect_paywall(TextOf(net[url].arch[k]))}
    IN  IF ok = {} THEN 0 ELSE CHOOSE k \in ok : \A j \in ok : k <= j

\* the content the call had when it reached the paywall check tripped it
TrippedPaywall(i) == \E a \in 1 .. Len(ReqsOf(i)) : ReqsOf(i)[a].stage = "mirror"

\* C7: a finished base_fetch_url call whose content tripped detect_paywall,
\* for a URL of which some archive service answers 200 with a body that
\* does not trip detect_paywall, returned as page content the body of the
\* first such service in ARCHIVE_FALLBACKS order.
C7_ArchiveReplacesPaywalled ==
    \A i \in Fetches :
        (Done(i) /\ TrippedPaywall(i) /\ FirstCleanArchive(fetches[i].url) # 0) =>
            LET k == FirstCleanArchive(fetches[i].url)
            IN  /\ fetches[i].out.status = "ok"
                /\ fetches[i].out.content =
                       Received(fetches[i].url, "mirror", k,
                                net[fetches[i].url].arch[k])

\* C8: if the bypass client or the standard client obtained content (a body
\* that is not empty) that does not trip detect_paywall, the call issues no
\* request to an archive service, and what a finished call returned as page
\* content is that body.
C8_CleanContentKept ==
    \A i \in Fetches :
        \A a \in 1 .. Len(ReqsOf(i)) :
            LET r == ReqsOf(i)[a]
            IN  (/\ r.stage \in {"bypass", "httpx"}
                 /\ GotContent(r)
                 /\ ~detect_paywall(TextOf(r.resp))) =>
                    /\ \A b \in 1 .. Len(ReqsOf(i)) :
                          ReqsOf(i)[b].stage \notin ArchiveStages
                    /\ Done(i) =>
                          /\ fetches[i].out.status = "ok"
                          /\ fetches[i].out.content =
                                 Received(fetches[i].url, r.stage, 0, r.resp)

\* The bypass client answered with an empty body, the standard client with
\* a clean page, and the call returned the standard client's page.
C8_Witness ==
    \E i \in Fetches :
        /\ Done(i)
        /\ Len(ReqsOf(i)) = 2
        /\ ReqsOf(i)[1].stage = "bypass"
        /\ ReqsOf(i)[2].resp = "clean"
        /\ fetches[i].out.status = "ok"
        /\ fetches[i].out.content[1].src = "httpx"

\* the call raised ValueError and the message contains the requested URL
RaisedNamingUrl(i) ==
    /\ fetches[i].out.status = "error"
    /\ fetches[i].out.content = <<[url |-> fetches[i].url]>>

\* the call returned content that is not empty
ReturnedContent(i) ==
    /\ fetches[i].out.status = "ok"
    /\ ~Falsy(fetches[i].out.content)

\* some stage of the call obtained content that is not empty (the probes of
\* get_archive_url only test a service: their bodies are not kept)
Obtained(i) ==
    \E a \in 1 .. Len(ReqsOf(i)) :
        ReqsOf(i)[a].stage # "probe" /\ GotContent(ReqsOf(i)[a])

\* C9: a finished base_fetch_url call raised ValueError, with a message that
\* contains the requested URL, if and only if no stage of it obtained
\* content that is not empty; otherwise it returned non-empty content.
C9_FailsIffNoContent ==
    \A i \in Fetches :
        Done(i) =>
            /\ RaisedNamingUrl(i) <=> ~Obtained(i)
            /\ Obtained(i) => ReturnedContent(i)

\* C10: what batch_rival_retrieve returned has one entry per input URL, and
\* entry i is the outcome of the task that fetched resources[i]: the error
\* string naming resources[i] if that task raised, and else the content that
\* task returned for resources[i].
C10_BatchOrder ==
    bpc = "done" =>
        /\ Len(processed_results) = Len(resources)
        /\ \A i \in 1 .. Len(resources) :
              /\ fetches[i].url = resources[i]
              /\ processed_results[i].content[1].url = resources[i]
              /\ processed_results[i].error = (fetches[i].out.status = "error")
              /\ processed_results[i].content = fetches[i].out.content
              /\ processed_results[i].ocr = fetches[i].out.ocr

\* A batch of two different URLs with different outcomes, of which the
\* second fetch completed first.
C10_Witness ==
    /\ bpc = "done"
    /\ Len(resources) = 2
    /\ resources[1] # resources[2]
    /\ finished = <<2, 1>>
    /\ processed_results[1].error
    /\ ~processed_results[2].error

\* C11: while batch_rival_retrieve waits, it goes on to return (it does not
\* raise and cancels nothing); when it has returned, every fetch has run to
\* completion, a fetch that raised is reported at its index as the error
\* string naming resources[i], a fetch that returned is reported as its
\* content, and fetches of the same URL have the same outcome whatever
\* happened to the other fetches.
C11_BatchFailuresIsolated ==
    /\ [](bpc = "done" =>
            /\ \A i \in Fetches : Done(i)
            /\ \A i \in Fetches :
                  IF fetches[i].out.status = "error"
                  THEN /\ processed_results[i].error
                       /\ processed_results[i].fetching = <<resources[i]>>
                  ELSE /\ ~processed_results[i].error
                       /\ processed_results[i].content = fetches[i].out.content
            /\ \A i, j \in Fetches :
                  fetches[i].url = fetches[j].url =>
                      fetches[i].out = fetches[j].out)
    /\ (bpc = "gather") ~> (bpc = "done")

\* A batch of two URLs returned; the first fetch raised, and it did so
\* before the second fetch, which returned content, had completed.
C11_Witness ==
    /\ bpc = "done"
    /\ Len(resources) = 2
    /\ finished = <<1, 2>>
    /\ processed_results[1].error
    /\ processed_results[1].fetching = <<resources[1]>>
    /\ ~processed_results[2].error

(***************************************************************************)
(* Properties of the link-follower's failures and of search().             *)
(***************************************************************************)
\* the requests of the current search() for the links below result i
FollowedFrom(i) ==
    {r \in requests : /\ r.search = searches
                      /\ r.origin = results[i].url
                      /\ r.depth \in {1, 2}}

\* the keys of the nested map of result i: depth-1 links, and depth-2 links
\* under their depth-1 link
HasKey(i, r) ==
    \E e \in results[i].second_level_content.map :
        IF r.depth = 1
        THEN e.link = r.url
        ELSE e.link = r.parent /\ r.url \in e.third_level

\* C12: in the nested map stored for a result, every link that was fetched
\* at depth 1 or depth 2 and whose fetch failed is a key (of the map, or of
\* the third_level map of its depth-1 link).
C12_FailedLinkIsKey ==
    \A i \in 1 .. Len(results) :
        results[i].second_level_content.set =>
            \A r \in FollowedFrom(i) : FetchFails(r.url) => HasKey(i, r)

\* C13: a started link-follow always completes (it does not raise), and in
\* the nested map it stores, whatever fetches failed, the result keeps the
\* content and links of its own page, every link fetched at depth 1 or 2
\* whose fetch succeeded is a key, and the entry of each key holds the links
\* of that key's own page.
C13_FailuresDoNotPropagate ==
    /\ [](\A i \in 1 .. Len(results) :
            results[i].second_level_content.set =>
                /\ results[i].full_content
                /\ results[i].internal_links = pageLinks[results[i].url]
                /\ \A r \in FollowedFrom(i) :
                      ~FetchFails(r.url) => HasKey(i, r)
                /\ \A e \in results[i].second_level_content.map :
                      /\ e.internal_links = pageLinks[e.link]
                      /\ \E r \in FollowedFrom(i) :
                            r.depth = 1 /\ r.url = e.link /\ ~FetchFails(r.url))
    /\ (pc = "follow") ~> (pc = "next")

\* A link-follow in which a depth-1 fetch failed stored a map that has the
\* failed link's sibling as a key.
C13_Witness ==
    \E i \in 1 .. Len(results) :
        /\ results[i].second_level_content.set
        /\ \E r, q \in FollowedFrom(i) :
              /\ r.depth = 1 /\ FetchFails(r.url)
              /\ q.depth = 1 /\ ~FetchFails(q.url) /\ HasKey(i, q)

\* a step in which a search() call returns
SearchReturns == pc' = "idle" /\ (pc # "idle" \/ searches' # searches)

\* C14: a search() call that was started always returns (it does not
\* raise), and it returns the empty list whenever its result-list request
\* was not answered with a feed (network error, error status, or the client
\* refusing the request) or the feed parses to no results.
C14_SearchNeverRaises ==
    /\ [][SearchReturns =>
            ((\/ call'.answer # "feed"
              \/ ParseRss(webFeed, call'.num_results) = <<>>)
                 => returned' = <<>>)]_vars
    /\ (pc # "idle") ~> (pc = "idle")

\* A search() of a site whose feed has a result returned [] because the
\* result-list request was answered with an error status.
C14_Witness ==
    /\ pc = "idle"
    /\ searches > 0
    /\ call.answer = "error status"
    /\ webFeed # <<>>
    /\ returned = <<>>

\* the page request of the current search() for result i of rs
PageRequest(rs, i) ==
    {r \in requests' : r.search = searches' /\ r.depth = 0 /\ r.url = rs[i].url}

\* C15: when a search() call with extract_content=True whose result-list
\* request was answered with a feed returns, it returns the results that
\* the same call with extract_content=False returns (same number, order,
\* title, url and rank), whatever page fetches failed; every result was
\* processed (its page was asked for, unless it had been visited), and
\* every result whose page was requested for it and did not fail has its
\* content.
C15_PageFailuresIsolated ==
    [][(SearchReturns /\ call'.extract_content /\ call'.answer = "feed") =>
          LET plain == ParseRss(webFeed, call'.num_results)
          IN  /\ Len(returned') = Len(plain)
              /\ \A i \in 1 .. Len(plain) :
                    /\ returned'[i].title = plain[i].title
                    /\ returned'[i].url = plain[i].url
                    /\ returned'[i].position = plain[i].position
                    /\ returned'[i].url \in visited_urls'
                    /\ (/\ PageRequest(plain, i) # {}
                        /\ \A j \in 1 .. i - 1 : plain[j].url # plain[i].url
                        /\ ~FetchFails(plain[i].url))
                          => returned'[i].full_content]_vars

\* A search() returned two results: the page fetch of the first failed, and
\* the second, processed after it, has its content.
C15_Witness ==
    /\ pc = "idle"
    /\ call.extract_content
    /\ Len(returned) = 2
    /\ FetchFails(returned[1].url)
    /\ \E r \in requests : r.search = searches /\ r.url = returned[1].url
    /\ ~returned[1].full_content
    /\ returned[2].full_content

\* C16: the engine's client is closed by close() only (which is called
\* between search() calls), and after the result-list request of a
\* search() call every page fetch of that call for a URL not yet visited
\* issues its request through the client.
C16_ClientStaysOpen ==
    [][/\ (session # "closed" /\ session' = "closed") =>
              (pc = "idle" /\ pc' = "idle" /\ searches' = searches)
       /\ (/\ pc = "next"
           /\ cur <= Len(results)
           /\ results[cur].url \notin visited_urls) => requests' # requests]_vars

\* C17: in what search() returns with extract_content=True, the content of
\* a result whose page trips detect_paywall, and of which the archive
\* services hold a copy that does not, is the archive copy: it does not trip
\* detect_paywall.
C17_PaywalledResultReplaced ==
    \A i \in 1 .. Len(returned) :
        (/\ returned[i].full_content
         /\ detect_paywall(PageText(returned[i].url))
         /\ ~detect_paywall(ArchivedText(returned[i].url))) =>
            /\ ~detect_paywall(returned[i].text)
            /\ returned[i].text = ArchivedText(returned[i].url)

\* C18: the current search() call has issued no page request at all if its
\* extract_content is false, and no depth-1 or depth-2 request if its
\* follow_links is false or its max_depth is at most 1; in those cases the
\* second_level_content of each of its results is unset.
C18_NoFetchUnlessAsked ==
    LET follows == call.extract_content /\ call.follow_links /\ call.max_depth > 1
    IN  /\ \A r \in requests :
              r.search = searches =>
                  /\ call.extract_content
                  /\ r.depth >= 1 => follows
        /\ ~follows =>
              /\ \A i \in 1 .. Len(results) :
                    results[i].second_level_content = Unset
              /\ pc = "idle" =>
                    \A i \in 1 .. Len(returned) :
                        returned[i].second_level_content = Unset

\* A search() with follow_links=False returned a result with the content
\* and the internal links of its page, and followed none of them.
C18_Witness ==
    /\ pc = "idle"
    /\ call.extract_content
    /\ ~call.follow_links
    /\ Len(returned) = 1
    /\ returned[1].full_content
    /\ returned[1].internal_links # <<>>
    /\ returned[1].second_level_content = Unset
    /\ \A r \in requests : r.search = searches => r.depth = 0

\* every item of the feed has a title and a link
WellFormed(feed) ==
    \A i \in 1 .. Len(feed) : feed[i].title # "" /\ feed[i].link # <<>>

\* C19: a search() whose result-list request was answered with a feed of m
\* items that each have a title and a link, asked for n results, returned
\* exactly min(m, n) results; the i-th has the title and link of the i-th
\* item and rank i.
C19_RssCountOrderRank ==
    (/\ pc = "idle"
     /\ searches > 0
     /\ call.answer = "feed"
     /\ WellFormed(webFeed)) =>
        LET k == Min(Len(webFeed), call.num_results)
        IN  /\ Len(returned) = k
            /\ \A i \in 1 .. k :
                  /\ returned[i].position = i
                  /\ returned[i].url = webFeed[i].link[1]
                  /\ returned[i].title = webFeed[i].title

\* A feed of three items, with two different links, was asked for two
\* results, and two were returned.
C19_Witness ==
    /\ pc = "idle"
    /\ call.answer = "feed"
    /\ WellFormed(webFeed)
    /\ Len(webFeed) = 3
    /\ webFeed[1].link # webFeed[2].link
    /\ call.num_results = 2
    /\ Len(returned) = 2
    /\ returned[2].position = 2

(***************************************************************************)
(* Properties of the multi-engine search.                                  *)
(***************************************************************************)
\* The engines a reply gives a failure reason for.  A reply has the fields
\* success, results, count and error, and the texts the tool puts in error
\* when nothing was found name no engine.
ReasonsIn(r) ==
    IF r.error \in {NoResultsFound, "none"} THEN {} ELSE EngineKeys

\* C20: when the request of every engine has failed with a network error,
\* the google_search tool has returned, and its reply has an empty result
\* set and a failure reason for each engine.
C20_AllFailedGivesReasons ==
    (/\ mpc = "done"
     /\ mcall.entry = "google_search"
     /\ \A e \in EngineKeys : engineNet[e].status = "network error") =>
        /\ reply.results = <<>>
        /\ reply.count = 0
        /\ \A e \in EngineKeys : e \in ReasonsIn(reply)

(***************************************************************************)
(* Properties of the extraction cascade.                                   *)
(***************************************************************************)
\* The stages as the cascade is described: a stage succeeds with a text
\* over its threshold, and a stage that raises, or that cannot run because
\* its parser is missing or rejects the document, yields nothing.
StageOne(d, av, x) ==
    IF x # "ContentExtractor" \/ ~av.content_utils \/ d.structured = Raises
    THEN Advance
    ELSE IF d.structured > MinContent THEN Out("structured", d.structured)
    ELSE IF d.markdown > MinContent THEN Out("markdown", d.markdown)
    ELSE Advance

StagesInOrder(d, av, x) ==
    <<StageOne(d, av, x),
      IF av.selectolax THEN Fast(d) ELSE Advance,
      IF d.soup_raises THEN Advance ELSE Selectors(d),
      IF d.soup_raises THEN Advance ELSE Body(d),
      Regex(d),
      IF d.soup_raises THEN Advance ELSE Title(d)>>

EveryStageYieldsNothing(d, av, x) ==
    d.empty \/ \A k \in 1 .. 6 : StagesInOrder(d, av, x)[k] = Advance

\* C21: what either extractor returns is a text longer than 100 characters,
\* or a title longer than 10 characters that the title-only stage took, or
\* the empty string, the last only when every stage, the title-only stage
\* included, yields nothing.  (Neither extractor raises: each returns.)
C21_OverThresholdOrEmpty ==
    extracted.by # "none" =>
        \/ extracted.out.stage \notin {"title", "none"}
              /\ extracted.out.len > MinContent
        \/ extracted.out.stage = "title" /\ extracted.out.len > MinTitle
        \/ /\ extracted.out = EmptyString
           /\ EveryStageYieldsNothing(html, available, extracted.by)

\* C22: extract_main_content returns the output of the first stage, in the
\* order structured, fast selectors, general-parser selectors, body, regex,
\* title-only, that succeeds; a stage that raises or yields an empty or
\* under-threshold text only advances to the next stage.
C22_FirstSuccessfulStage ==
    extracted.by = "ContentExtractor" =>
        extracted.out =
            IF html.empty THEN EmptyString
            ELSE FirstResult(StagesInOrder(html, available, extracted.by))

(***************************************************************************)
(* Properties of extract_search_results.                                   *)
(***************************************************************************)
\* The entries of the returned list that a selector family made.
StructuredEntries == {i \in 1 .. Len(page_results) : page_results[i].family # 0}
FallbackEntries == {i \in 1 .. Len(page_results) : page_results[i].family = 0}

\* C23: the list returned by extract_search_results(html, max_results) has
\* at most max_results entries, no two with the same URL, each with a
\* non-empty title and a URL beginning with http; and it has entries of the
\* whole-page fallback only when the structured selectors produced fewer
\* than max_results entries.
C23_ResultListWellFormed ==
    page_done =>
        /\ Len(page_results) <= wanted
        /\ \A i, j \in 1 .. Len(page_results) :
              page_results[i].link = page_results[j].link => i = j
        /\ \A i \in 1 .. Len(page_results) :
              /\ page_results[i].title # ""
              /\ StartsWithHttp(page_results[i].link)
        /\ FallbackEntries # {} => Cardinality(StructuredEntries) < wanted

\* Two families matched a container with the same URL, which was taken
\* once, and the fallback filled the list up.
C23_Witness ==
    /\ page_done
    /\ wanted = 2
    /\ Len(result_page.containers) = 2
    /\ result_page.containers[1].link = result_page.containers[2].link
    /\ result_page.containers[1].family # result_page.containers[2].family
    /\ Len(page_results) = 2
    /\ page_results[1].family # 0
    /\ page_results[2].family = 0

\* C24 as stated: the structured entries of a returned list all come from
\* one selector family.
C24_SingleFamily ==
    page_done =>
        \A i, j \in StructuredEntries :
            page_results[i].family = page_results[j].family

\* A container from which an entry can be made: a title and an http URL.
Usable(c) == c.title # "" /\ StartsWithHttp(c.link)

\* C24, amended: the families are merged.  The structured entries are in
\* the order of the families, and a usable container of any family is left
\* out only when its URL is in the list already or the list is full.
C24_FamiliesMerged ==
    page_done =>
        /\ \A i, j \in StructuredEntries :
              i < j => page_results[i].family <= page_results[j].family
        /\ \A k \in 1 .. Len(result_page.containers) :
              Usable(result_page.containers[k]) =>
                  \/ result_page.containers[k].link \in LinksOf(page_results)
                  \/ Len(page_results) = wanted

\* Two families gave one entry each to the same list.
C24_Witness ==
    /\ page_done
    /\ Len(page_results) = 2
    /\ page_results[1].family # 0
    /\ page_results[2].family # 0
    /\ page_results[1].family # page_results[2].family

(***************************************************************************)
(* Properties of the proxy pool.                                           *)
(***************************************************************************)
\* A step in which caller c's refresh ends.
RefreshEnds(c) ==
    callers[c].pc \in {"source", "probe"} /\ callers'[c].pc = "done"

\* A step in which caller c calls get_proxies.
Calls(c) == callers[c].pc \in {"idle", "done"} /\ callers'[c] # callers[c]

C26_PoolAllProbed ==
    \A i \in 1 .. Len(proxies) : proxies[i] \in pool_passed

\* C26, amended: every address in the pool passed the probe during the
\* refresh that added it, or is one of the two hardcoded local addresses,
\* which a refresh in which nothing passed adds without a probe.
C26_PoolProbedOrFallback ==
    \A i \in 1 .. Len(proxies) :
        \/ proxies[i] \in pool_passed
        \/ /\ pool_passed = {}
           /\ \E k \in 1 .. Len(fallback_proxies) :
                 proxies[i] = fallback_proxies[k]

\* A refresh filled the pool with probed addresses and dropped a candidate
\* whose probe failed.
C26_Witness ==
    /\ Len(proxies) > MinPool
    /\ pool_passed # {}
    /\ \E a \in Candidates : a \notin alive /\ failed_at[a] >= 0

\* C27 as stated: no candidate is probed again within RefreshInterval of
\* a refresh in which its probe failed.
C27_NoRetryInWindow == retried = {}

\* C27, amended: a get_proxies call probes nothing, and returns from the
\* pool, only when the pool is younger than RefreshInterval and has more
\* than MinPool addresses; every other call asks the sources again and
\* probes their candidates, those that failed before included.
C27_RetryUnlessCached ==
    [][\A c \in Callers :
          Calls(c) =>
              IF now - last_proxy_refresh < RefreshInterval
                 /\ Len(proxies) > MinPool
              THEN /\ callers'[c].pc = "done"
                   /\ callers'[c].returned =
                         Sliced(proxies, callers'[c].count)
                   /\ UNCHANGED <<failed_at, retried, last_proxy_refresh>>
              ELSE callers'[c].pc = "source"]_vars

\* A call within RefreshInterval of a refresh in which the probe of a
\* candidate failed was answered from the pool.
C27_Witness ==
    /\ \E a \in Candidates :
          failed_at[a] >= 0 /\ now - failed_at[a] < RefreshInterval
    /\ \E c \in Callers : callers[c].pc = "done" /\ callers[c].cached

(***************************************************************************)
(* Properties of ConcurrentProcessor.                                      *)
(***************************************************************************)
\* C28: when the processor has a timeout and the group of operations is
\* not done within it, process_concurrently raises one TimeoutError for
\* the whole group: it returns no result, not those of the operations
\* that are done, and the error names no operation. It returns results
\* only when the whole group was done by the timeout.
C28_TimeoutForGroup ==
    /\ group.pc = "raised" =>
          /\ timeout_seconds # NoTimeout
          /\ group.raised = "TimeoutError"
          /\ group.operation = NoOperation
          /\ group.results = <<>>
    /\ (group.pc = "returned" /\ timeout_seconds # NoTimeout) =>
          /\ group.finished_at <= timeout_seconds
          /\ group.results = Gathered
    /\ (group.pc = "gathering" /\ timeout_seconds # NoTimeout) =>
          clock - group.called_at <= timeout_seconds

\* The group timed out while one operation was done and another ran on.
C28_Witness ==
    /\ group.pc = "raised"
    /\ \E i \in Ops : op_state[i].status = "done"
    /\ \E i \in Ops : op_state[i].status = "cancelled"

\* C33: at every moment at most max_concurrent of the operations handed to
\* the processor are executing, also across the successive batches of
\* process_batch and after the timeout of a batch has fired.
C33_AtMostMaxConcurrent ==
    group.pc # "idle" => Cardinality(Executing) <= max_concurrent

(***************************************************************************)
(* Properties of MultiSearchEngine.search.                                 *)
(***************************************************************************)
\* The engines asked so far by the call: the loop is at engine_idx.
Queried == SubSeq(sorted_engines, 1, engine_idx)

\* C29: search() asks the selected engines one at a time in ascending
\* priority, goes on to the next engine when one fails or returns
\* nothing, and asks no engine once the accumulated results have reached
\* max_results.
C29_OneAtATimeUntilEnough ==
    mpc # "idle" =>
        /\ \A i, j \in 1 .. Len(Queried) :
              i < j => Priority(Queried[i]) < Priority(Queried[j])
        /\ \A i \in 1 .. Len(Queried) : Queried[i] \in mcall.engines
        /\ mpc = "engine" => Len(all_results) < mcall.max_results
        /\ mpc \in {"closing", "done"} =>
              \/ Len(all_results) >= mcall.max_results
              \/ Len(Queried) = Cardinality(mcall.engines)

\* The URL without its tracking parameters and trailing slash, in lower
\* case: every spelling of a page is the page.
Canonical(url) ==
    [url EXCEPT !.form = IF @ \in {"slash", "upper", "fbclid", "utm"}
                         THEN "plain" ELSE @]

\* The accumulated results whose URL is the same page as that of r.
SamePage(r) ==
    {i \in 1 .. Len(all_results) :
        Canonical(all_results[i].url) = Canonical(r.url)}

\* The places in the accumulated results of the results returned.
KeptPlaces ==
    [k \in 1 .. Len(unique_results) |->
        CHOOSE i \in 1 .. Len(all_results) :
            all_results[i] = unique_results[k]
            /\ \A j \in 1 .. i - 1 : all_results[j] # unique_results[k]]

\* C30: the list search() returns has at most max_results entries and no
\* two entries with the same normalized URL (tracking parameters removed,
\* trailing slash removed, lower-cased); of the results with one
\* normalized URL the first accumulated, which is that of the engine of
\* higher priority, is the one kept, and the kept results are in the
\* order in which they were accumulated.
C30_UniqueByNormalizedUrl ==
    mpc \in {"closing", "done"} =>
        /\ Len(unique_results) <= mcall.max_results
        /\ \A i, j \in 1 .. Len(unique_results) :
              i # j => Canonical(unique_results[i].url)
                         # Canonical(unique_results[j].url)
        /\ \A k \in 1 .. Len(unique_results) :
              /\ \E i \in 1 .. Len(all_results) :
                    all_results[i] = unique_results[k]
              /\ \A i \in SamePage(unique_results[k]) :
                    KeptPlaces[k] <= i
        /\ \A i, j \in 1 .. Len(unique_results) :
              i < j => KeptPlaces[i] < KeptPlaces[j]

(***************************************************************************)
(* Properties of the scheduling of base_fetch_url.                         *)
(***************************************************************************)
\* The requests task i issues in a step.
IssuedBy(i) ==
    {k \in 1 .. Len(fetches'[i].reqs) : k > Len(fetches[i].reqs)}

\* C31: every network request base_fetch_url makes is a suspension point of
\* the event loop: the task that issues a request, the one of the bypass
\* client included, is suspended with the request pending, so that the
\* other tasks of the batch can take steps before the response.
C31_EveryRequestSuspends ==
    [][\A i \in 1 .. Len(fetches) :
          Len(fetches') = Len(fetches) =>
              \A k \in IssuedBy(i) : fetches'[i].reqs[k].resp = "pending"]_vars

\* C32: when several get_proxies calls refresh concurrently, the pool and
\* the refresh timestamp are at every moment the complete result and the
\* start time of one single refresh, or the initial empty pool and zero:
\* every step that changes either is the end of one caller's refresh, which
\* has asked every source, and writes that caller's whole list and start
\* time together, so that select_proxy returns an address of that list.
C32_PoolOfOneRefresh ==
    /\ proxies = <<>> /\ last_proxy_refresh = 0
    /\ [][<<proxies, last_proxy_refresh>>' # <<proxies, last_proxy_refresh>>
            => \E c \in Callers :
                 /\ RefreshEnds(c)
                 /\ \A d \in Callers \ {c} : callers'[d] = callers[d]
                 /\ callers'[c].source = NSources
                 /\ proxies' = callers'[c].all_proxies
                 /\ last_proxy_refresh' = callers'[c].current_time
                 /\ select_proxy' =
                      {proxies'[i] : i \in 1 .. Len(callers'[c].all_proxies)}
       ]_vars

\* One caller's refresh has ended and made the pool while the refresh of
\* another, started before that, has validated only part of its list.
C32_Witness ==
    \E c, d \in Callers :
        /\ c # d
        /\ callers[c].pc = "done" /\ ~callers[c].cached
        /\ proxies = callers[c].all_proxies
        /\ callers[d].pc = "probe"
        /\ callers[d].stale # proxies
        /\ callers[d].all_proxies # <<>>
        /\ Len(callers[d].all_proxies) < Len(proxies)

(***************************************************************************)
(* Properties of the error strategies.                                     *)
(***************************************************************************)
\* C34: execute_with_recovery invokes the operation at most max_retries + 1
\* times, makes no attempt after the first successful one and returns its
\* value, and when every attempt has failed raises the error of the last.
C34_RetriesBounded ==
    LET h == recovery.history
    IN  /\ Len(h) <= recovery.max_retries + 1
        /\ \A i \in 1 .. Len(h) - 1 : ~h[i].ok
        /\ recovery.pc \in {"operation", "sleep"} =>
              /\ \A i \in 1 .. Len(h) : ~h[i].ok
              /\ Len(h) <= recovery.max_retries
        /\ recovery.pc = "returned" =>
              h # <<>> /\ h[Len(h)].ok /\ recovery.value = h[Len(h)].what
        /\ recovery.pc = "raised" =>
              /\ Len(h) = recovery.max_retries + 1
              /\ \A i \in 1 .. Len(h) : ~h[i].ok
              /\ recovery.raised = h[Len(h)].what

\* Every attempt failed, the first with another error than the last, whose
\* error was raised.
C34_Witness ==
    /\ recovery.pc = "raised"
    /\ Len(recovery.history) = MaxRetries + 1
    /\ recovery.history[1].what # recovery.raised

\* C35: execute_with_fallback calls a fallback only after the primary
\* operation raised, calls the fallbacks in the order of the dict, returns
\* the first truthy result of a fallback as a fallback_success naming that
\* fallback, and raises the primary operation's error when no fallback
\* gave a truthy result.
C35_FallbacksInOrder ==
    LET called == fbcall.called
        answers == fbcall.answers
        ops == fbcall.fallback_operations
        Success(i) == answers[i].ok /\ answers[i].what \notin FalsyValues
    IN  /\ called # <<>> => called[1] = "primary"
        /\ Len(called) > 1 => ~answers[1].ok
        /\ Len(called) <= Len(ops) + 1
        /\ \A i \in 2 .. Len(called) : called[i] = ops[i - 1]
        /\ \A i \in 2 .. Len(answers) :
              Success(i) =>
                 /\ i = Len(called)
                 /\ fbcall.pc = "returned"
                 /\ fbcall.returned.status = "fallback_success"
                 /\ fbcall.returned.method = ops[i - 1]
                 /\ fbcall.returned.data = answers[i].what
        /\ fbcall.pc = "returned" =>
              /\ Len(answers) = Len(called)
              /\ \/ /\ Len(answers) = 1
                    /\ answers[1].ok
                    /\ fbcall.returned.status # "fallback_success"
                    /\ fbcall.returned.data = answers[1].what
                 \/ Len(answers) > 1 /\ Success(Len(answers))
        /\ fbcall.pc = "raised" =>
              /\ Len(answers) = Len(ops) + 1
              /\ ~answers[1].ok
              /\ \A i \in 2 .. Len(answers) : ~Success(i)
              /\ fbcall.raised = answers[1].what

\* The primary operation raised, the first fallback returned a falsy value
\* and the second fallback's value was returned.
C35_Witness ==
    /\ fbcall.pc = "returned"
    /\ Len(fbcall.answers) = 3
    /\ fbcall.answers[2].ok
    /\ fbcall.returned.status = "fallback_success"
    /\ fbcall.returned.method = fbcall.fallback_operations[2]

(***************************************************************************)
(* Properties of the pagination.                                           *)
(***************************************************************************)
\* The items of the first n responses, one behind the other
RECURSIVE ReturnedItems(_)
ReturnedItems(n) ==
    IF n = 0 THEN <<>>
    ELSE ReturnedItems(n - 1) \o pagination.responses[n].items

\* C36: a walk that starts with no cursor and hands each nextCursor to the
\* next call returns every item of the list once, in the list's order, and
\* the response without nextCursor holds the last item.
C36_EveryItemOnce ==
    pagination.ended =>
       /\ ReturnedItems(Len(pagination.responses)) = pagination.items
       /\ LET last == pagination.responses[Len(pagination.responses)].items
          IN  pagination.items # <<>> =>
                 /\ last # <<>>
                 /\ last[Len(last)] = pagination.items[Len(pagination.items)]

(***************************************************************************)
(* Properties of LRUCache.                                                 *)
(***************************************************************************)
\* C37: an LRUCache with max_size of 1 or more never holds more than
\* max_size entries, and the entry a put at capacity removes is the one
\* whose last put or successful get lies furthest back.
C37_BoundedAndLeastRecent ==
    /\ Len(lru.cache) <= lru.max_size
    /\ Cardinality(KeysIn(lru.cache)) = Len(lru.cache)
    /\ (lru.last.op = "put" /\ lru.last.removed # "none") =>
          /\ Len(lru.last.before) = lru.max_size
          /\ \A k \in KeysIn(lru.last.before) :
                lru.last.used[lru.last.removed] <= lru.last.used[k]

\* A put at capacity removed an entry that was put after the one that
\* stayed, which had been read since.
C37_Witness ==
    /\ lru.last.op = "put"
    /\ lru.last.removed # "none"
    /\ Len(lru.last.before) = 2
    /\ lru.last.before[2].key \in KeysIn(lru.cache)
    /\ lru.last.before[2].key # lru.last.key
    /\ lru.last.before[2].timestamp <= lru.last.before[1].timestamp
    /\ lru.last.used[lru.last.before[2].key] > 2

\* C38: a put for a key that is in the cache gives the key its new value
\* and removes no other key, at capacity too.
C38_PutOfPresentKey ==
    (lru.last.op = "put" /\ lru.last.key \in KeysIn(lru.last.before)) =>
       /\ KeysIn(lru.cache) = KeysIn(lru.last.before)
       /\ EntryOf(lru.cache, lru.last.key).value = lru.last.value

====
